---- MODULE Spec2Model ----
(***************************************************************************)
(* Model of the Vulkan frame renderer of magma:                            *)
(*   engine/ctx/render/vulkan.rs   GraphicsHandler, SwapchainHandler       *)
(*   engine/ctx/draw_objects.rs    GraphicObject, Sprite, Primitive        *)
(*   engine/ctx/video.rs           VideoHandler::update                    *)
(*   engine/ctx/ctxhandler.rs      CtxHandler::check_events                *)
(*   engine/main_engine.rs         Engine::run                             *)
(* vulkan_loop is split into its consecutive blocks; pc is the position of *)
(* the single thread inside Engine::run / VideoHandler::update /           *)
(* vulkan_loop.  Only the window system moves while an update is running.  *)
(***************************************************************************)
EXTENDS Integers, Sequences, FiniteSets, TLC

\* ---------------------------------------------------------------- bounds
\* number of entities ever created in one run
MaxEntities == 2
\* largest z-index handed to new_sprite / new_rectangle
MaxZ == 1
\* images a driver may hand out beyond the requested count
ExtraImages == 0
\* largest capability value enumerated for create_raw_swapchain
MaxCap == 9
\* number of physical devices the instance enumerates
MaxDevices == 2
\* number of get_ref() guards alive on one entity at a time
MaxReaders == 1

\* ------------------------------------------------------------- constants
\* max_image_count: None
None == 0 - 1

Ids == 1..MaxEntities
ZValues == 0..MaxZ
\* window sizes the window system can report; <<0, 0>> is a minimised window
WindowSizes == {<<800, 600>>, <<640, 480>>, <<0, 0>>}
InitialWindowSize == <<800, 600>>
\* surface capabilities of the devices the renderer is started on
StartupCaps == {<<2, 3>>}

VARIABLES
    devices,            \* PhysicalDevice::enumerate(&instance), in order
    selected,           \* get_device: the chosen device and queue family
    caps,               \* surface capabilities: <<min_image_count, max>>
    pipelines,          \* GraphicsHandler.pipelines: name -> pipeline
    pc,                 \* position of the thread in run / update / vulkan_loop
    must_break,         \* CtxHandler.must_break
    window_resized,     \* VideoHandler.window_resized
    win_size,           \* Window::size() as the window system reports it
    ev_resized,         \* a WindowEvent::Resized waits in the event pump
    next_id,            \* creation sequence number of the next entity
    z_index,            \* Sprite.z_index per entity
    draw_flags,         \* Sprite.draw_flags per entity
    handle,             \* the GraphicObject of the entity is still alive
    borrow_flag,        \* the borrow state of the entity's RefCell: the
                        \* number of Ref guards alive, -1 for a RefMut
    sprite,             \* Sprite.color, global_position, scale and
                        \* image_dimensions per entity
    cpu_buffer,         \* Sprite.cpu_buffer per entity: the SpriteData the
                        \* GPU reads
    draw_objects,       \* GraphicsHandler.draw_objects
    window_size,        \* GraphicsHandler.window_size
    camera_position,    \* GraphicsHandler.camera_position
    camera_scale,       \* GraphicsHandler.camera_scale
    swapchain,          \* SwapchainHandler
    previous_frame_end, \* GraphicsHandler.previous_frame_end: "none" after
                        \* take(), "satisfied" for sync::now and for a fence
                        \* future that has been waited on, else "pending"
    gpu_inflight,       \* entities referenced by unretired GPU work
    first_frame,        \* no update() has returned yet
    last_hidden,        \* entities with a live handle that the previous
                        \* draw pass filtered out; empty once the loop ends
    last_outcome,       \* the flush failure the update() that has just
                        \* returned ended with, "none" if it met none or
                        \* once anything but the next update() follows
    resized,            \* vulkan_loop parameter
    suboptimal,         \* vulkan_loop local
    builder,            \* vulkan_loop local: draw calls recorded so far
    frame,              \* what this update() has done so far
    entry,              \* completion signal at update() entry, and the
                        \* swapchain at entry and the global uniform data
                        \* written at entry until validation has passed
    chunk,              \* the SoundEffect the caller of sfx_from_file holds
    channels,           \* the mixer's channels: playing, and the volume
                        \* set_volume gave it (None: never set)
    sfx_call            \* the last call into AudioHandler: its inputs, what
                        \* it returned and the channels it started

vars == <<devices, selected, caps, pipelines, pc, must_break,
          window_resized, win_size, ev_resized, next_id, z_index, draw_flags,
          handle, borrow_flag, sprite, cpu_buffer, draw_objects,
          window_size, camera_position, camera_scale,
          swapchain, previous_frame_end, gpu_inflight,
          first_frame, last_hidden, last_outcome, resized, suboptimal,
          builder, frame, entry, chunk, channels, sfx_call>>

ctxVars == <<must_break, window_resized>>
\* the device's capabilities and the pipelines built for it, and the window
\* system's side of the window
deviceVars == <<devices, selected, caps>>
audioVars == <<chunk, channels, sfx_call>>
osVars == <<deviceVars, pipelines, win_size, ev_resized, audioVars>>
dataVars == <<sprite, cpu_buffer>>
globalVars == <<window_size, camera_position, camera_scale>>
entityVars == <<next_id, z_index, draw_flags, handle, borrow_flag, dataVars>>
gpuVars == <<gpu_inflight, first_frame, last_hidden, last_outcome>>
localVars == <<resized, suboptimal, builder>>

\* --------------------------------------------------------------- helpers
Max(a, b) == IF a >= b THEN a ELSE b
Min(a, b) == IF a <= b THEN a ELSE b
Range(s) == {s[i] : i \in 1..Len(s)}

RECURSIVE SelectIds(_, _)
\* Vec::retain / Iterator::filter over a list of entities, order preserved
SelectIds(s, keep) ==
    IF s = <<>> THEN <<>>
    ELSE IF Head(s) \in keep THEN <<Head(s)>> \o SelectIds(Tail(s), keep)
    ELSE SelectIds(Tail(s), keep)

\* ------------------------------------------------------------ draw flags
USED == "USED"
VISIBLE == "VISIBLE"

\* a constructor that inserts USED only
NewDrawFlags_UsedOnly == {} \cup {USED}

\* Sprite::new / Primitive::pixel: insert(USED | VISIBLE) into empty flags
NewDrawFlags == {} \cup {USED, VISIBLE}

\* a set_dead that empties the flag set
set_dead_ClearsAll(flags) == {}

\* Draw::set_dead
set_dead(flags) == flags \ {USED}

\* a set_visible that assigns the flags instead of setting one bit
set_visible_Overwrites(flags, visible) ==
    IF visible THEN {VISIBLE} ELSE {}

\* Draw::set_visible
set_visible(flags, visible) ==
    IF visible THEN flags \cup {VISIBLE} ELSE flags \ {VISIBLE}

\* ------------------------------------------------- RefCell of an entity
\* RefCell::borrow succeeds unless a RefMut is alive
CanBorrow(flag) == flag >= 0

\* RefCell::borrow_mut succeeds only when no guard is alive
CanBorrowMut(flag) == flag = 0

\* the flag while one more Ref is alive, and after one Ref was dropped
Borrowed(flag) == flag + 1
Released(flag) == flag - 1

\* retain(|o| o.borrow().read_flags()..) and o.borrow().flush_data(): a
\* Ref per registry entity, dropped before the next one is taken
RetainConflict(objs, flags) ==
    \E e \in Range(objs) : ~CanBorrow(flags[e])

\* a draw pass whose filter keeps its Ref while draw() borrows mutably
DrawConflict_FilterGuardKept(flag) ==
    \/ ~CanBorrow(flag)
    \/ ~CanBorrowMut(Borrowed(flag))

\* the draw pass on one entity: the filter takes o.borrow() and drops it,
\* then obj.borrow_mut().draw(..)
DrawConflict(flag) ==
    \/ ~CanBorrow(flag)
    \/ ~CanBorrowMut(Released(Borrowed(flag)))

\* a sort that also compares an element with itself
SortConflict_SelfCompare(objs, flags) == Len(objs) >= 1

\* sort_draw_objects: every comparison takes a.borrow_mut() and
\* b.borrow_mut(); a list of two or more has each element compared
SortConflict(objs, flags) ==
    /\ Len(objs) >= 2
    /\ \E e \in Range(objs) : ~CanBorrowMut(flags[e])

\* ----------------------------------------------------------- sprite data
\* the texture files the program loads
Textures == {"assets/sprite.png"}

\* create_and_bind_texture: info.width and info.height as png::Decoder
\* reads them from the file
TextureInfo(texture_path) ==
    IF texture_path = "assets/sprite.png" THEN <<32, 16>> ELSE <<0, 0>>

\* Vector2::extend, Vector3::extend
extend(v, w) == Append(v, w)

\* Sprite::new / Primitive::pixel: the public fields of a new entity and
\* the size create_and_bind_texture returned
NewSprite(image_dimensions) ==
    [color |-> <<1, 1, 1, 1>>,
     global_position |-> <<0, 0>>,
     scale |-> <<1, 1>>,
     image_dimensions |-> image_dimensions]

\* Sprite::new / Primitive::pixel: the SpriteData the cpu_buffer is made of
NewSpriteData(s) ==
    [color |-> s.color,
     global_position |-> extend(extend(s.global_position, 0), 0),
     scale |-> extend(extend(s.scale, 0), 0),
     image_dimensions |-> extend(extend(s.image_dimensions, 0), 0)]

\* the slot of an entity that does not exist
NoSprite == NewSprite(<<0, 0>>)
NoSpriteData == NewSpriteData(NoSprite)

\* a flush that leaves the scale out
flush_data_NoScale(s, sprite_data) ==
    [sprite_data EXCEPT
        !.color = s.color,
        !.global_position = extend(extend(s.global_position, 0), 0)]

\* Draw::flush_data
flush_data(s, sprite_data) ==
    [sprite_data EXCEPT
        !.color = s.color,
        !.global_position = extend(extend(s.global_position, 0), 0),
        !.scale = extend(extend(s.scale, 0), 0)]

\* vulkan_loop: for o in &self.draw_objects { o.borrow().flush_data() }
flush_all(objs, sprites, buffers) ==
    [e \in Ids |-> IF e \in Range(objs)
                   THEN flush_data(sprites[e], buffers[e])
                   ELSE buffers[e]]

\* what the holder of a handle assigns to the public fields of the entity
\* through one get_mut() guard
SpriteEdits ==
    {[color |-> <<1, 1, 1, 1>>, global_position |-> <<0, 0>>,
      scale |-> <<1, 1>>],
     [color |-> <<1, 0, 0, 1>>, global_position |-> <<3, 4>>,
      scale |-> <<2, 2>>]}

\* ------------------------------------------------- global uniform data
\* the global uniform buffer before an update() has written it
NoGlobalData ==
    [window_size |-> <<>>, camera_position |-> <<>>, camera_scale |-> <<>>]

\* GraphicsHandler::flush_global_data: the three fields are written from
\* the handler's window_size, camera_position and camera_scale
flush_global_data(global_data, size, position, scale) ==
    [global_data EXCEPT
        !.window_size = extend(extend(size, 0), 0),
        !.camera_position = extend(extend(position, 0), 0),
        !.camera_scale = extend(extend(scale, 0), 0)]

\* a loop that records the new window size before it flushes
FlushedWindowSize_AfterResolve(at_entry, resolved) == resolved

\* vulkan_loop: flush_global_data() runs before self.window_size is
\* assigned, so it writes the window size the update() was entered with
FlushedWindowSize(at_entry, resolved) == at_entry

\* what the program assigns to the public fields camera_position and
\* camera_scale
CameraEdits ==
    {[camera_position |-> <<0, 0>>, camera_scale |-> <<1, 1>>],
     [camera_position |-> <<5, 7>>, camera_scale |-> <<2, 0 - 1>>]}

\* ---------------------------------------------------------- the registry
\* a sort that is not stable: x goes in front of the elements of equal z-index
SortInsert_Unstable(sorted, x, z) ==
    LET before == {i \in 1..Len(sorted) : z[sorted[i]] < z[x]}
        k == Cardinality(before)
    IN SubSeq(sorted, 1, k) \o <<x>> \o SubSeq(sorted, k + 1, Len(sorted))

\* slice::sort_by is a stable sort: insert x behind every element whose
\* z-index is not greater
SortInsert(sorted, x, z) ==
    LET before == {i \in 1..Len(sorted) : z[sorted[i]] <= z[x]}
        k == Cardinality(before)
    IN SubSeq(sorted, 1, k) \o <<x>> \o SubSeq(sorted, k + 1, Len(sorted))

RECURSIVE SortByZ(_, _)
\* GraphicsHandler::sort_draw_objects
SortByZ(s, z) ==
    IF s = <<>> THEN <<>>
    ELSE SortInsert(SortByZ(SubSeq(s, 1, Len(s) - 1), z), s[Len(s)], z)

\* GraphicsHandler::append_draw_object
append_draw_object(objs, obj, z) == SortByZ(Append(objs, obj), z)

\* a reclaim pass that retains every entity
RetainUsed_KeepAll(objs, flags) == objs

\* a reclaim pass that tests the wrong flag
RetainUsed_ByVisible(objs, flags) ==
    SelectIds(objs, {e \in Ids : VISIBLE \in flags[e]})

\* a reclaim pass that stops after the first entity it removes
RetainUsed_FirstOnly(objs, flags) ==
    LET unused == {i \in DOMAIN objs : ~(USED \in flags[objs[i]])}
    IN IF unused = {} THEN objs
       ELSE LET first == CHOOSE i \in unused : \A j \in unused : i <= j
            IN SubSeq(objs, 1, first - 1)
                   \o SubSeq(objs, first + 1, Len(objs))

\* vulkan_loop: draw_objects.retain(|o| flags.contains(USED))
RetainUsed(objs, flags) ==
    SelectIds(objs, {e \in Ids : USED \in flags[e]})

RECURSIVE Reverse(_)
\* Iterator::rev over a list
Reverse(s) ==
    IF s = <<>> THEN <<>> ELSE Append(Reverse(Tail(s)), Head(s))

\* a draw pass that walks the registry from the back
FilterVisible_BackToFront(objs, flags) ==
    Reverse(SelectIds(objs, {e \in Ids : VISIBLE \in flags[e]}))

\* a draw pass without the visibility filter
FilterVisible_All(objs, flags) == objs

\* vulkan_loop: cloned_list.iter().filter(|o| flags.contains(VISIBLE))
FilterVisible(objs, flags) ==
    SelectIds(objs, {e \in Ids : VISIBLE \in flags[e]})

\* ------------------------------------------------------ device selection
\* PhysicalDeviceType
DeviceTypes == {"DiscreteGpu", "IntegratedGpu", "VirtualGpu", "Cpu", "Other"}

\* a queue family: supports_graphics() and surface.is_supported(q)
QueueFamilies == {[graphics |-> TRUE, present |-> FALSE],
                  [graphics |-> FALSE, present |-> TRUE],
                  [graphics |-> TRUE, present |-> TRUE]}

\* the queue families of one device, in enumeration order
FamilyLists ==
    {<<>>} \cup {<<q>> : q \in QueueFamilies}
           \cup {<<q, r>> : q \in QueueFamilies, r \in QueueFamilies}

PhysicalDevices ==
    [device_type : DeviceTypes, queue_families : FamilyLists]

DeviceLists == UNION {[1..n -> PhysicalDevices] : n \in 0..MaxDevices}

\* get_device: the key of min_by_key
DeviceKey(device_type) ==
    CASE device_type = "DiscreteGpu" -> 0
      [] device_type = "IntegratedGpu" -> 1
      [] device_type = "VirtualGpu" -> 2
      [] device_type = "Cpu" -> 3
      [] device_type = "Other" -> 4

\* get_device: the closure handed to find
Suitable(q) == q.graphics /\ q.present

\* p.queue_families().find(..): index of the first suitable family, 0 for
\* None
find_queue_family(p) ==
    LET hits == {i \in DOMAIN p.queue_families :
                    Suitable(p.queue_families[i])}
    IN IF hits = {} THEN 0
       ELSE CHOOSE i \in hits : \A j \in hits : i <= j

\* Iterator::min_by_key over the devices whose index is in `among`: the
\* first of the elements with the least key
min_by_key(devs, among) ==
    CHOOSE i \in among :
        \A j \in among :
            \/ DeviceKey(devs[i].device_type) < DeviceKey(devs[j].device_type)
            \/ /\ DeviceKey(devs[i].device_type)
                    = DeviceKey(devs[j].device_type)
               /\ i <= j

\* Option::unwrap on None
NoDevice == [physical |-> 0, queue_family |-> 0]

\* a selection that ranks every enumerated device, suitable or not
get_device_Unfiltered(devs) ==
    IF DOMAIN devs = {} THEN NoDevice
    ELSE LET i == min_by_key(devs, DOMAIN devs)
         IN [physical |-> i, queue_family |-> find_queue_family(devs[i])]

\* get_device: filter_map, min_by_key, unwrap
get_device(devs) ==
    LET kept == {i \in DOMAIN devs : find_queue_family(devs[i]) # 0}
    IN IF kept = {} THEN NoDevice
       ELSE LET i == min_by_key(devs, kept)
            IN [physical |-> i, queue_family |-> find_queue_family(devs[i])]

\* the devices of the machine the renderer is started on
StartupDevices ==
    <<[device_type |-> "DiscreteGpu",
       queue_families |-> <<[graphics |-> TRUE, present |-> TRUE]>>]>>

\* ------------------------------------------------------------- pipelines
\* create_pipeline!: build a pipeline from the two shaders and insert it
\* under $name; `object` tells the Arc of one build from that of another
create_pipeline(name, vs_path, fs_path, object, map) ==
    [n \in DOMAIN map \cup {name} |->
        IF n = name
        THEN [vert_shader |-> vs_path, frag_shader |-> fs_path,
              object |-> object]
        ELSE map[n]]

\* a startup that registers the sprite pipeline under another name
StartupPipelines_Misnamed ==
    create_pipeline("Sprites", "assets/shaders/sprite.vert",
                    "assets/shaders/sprite.frag", "second",
        create_pipeline("Primitive", "assets/shaders/primitive.vert",
                        "assets/shaders/primitive.frag", "first", <<>>))

\* GraphicsHandler::new: HashMap::new() and the two create_pipeline! calls
StartupPipelines ==
    create_pipeline("Sprite", "assets/shaders/sprite.vert",
                    "assets/shaders/sprite.frag", "second",
        create_pipeline("Primitive", "assets/shaders/primitive.vert",
                        "assets/shaders/primitive.frag", "first", <<>>))

\* HashMap::get(name): the name is registered
HasPipeline(map, name) == name \in DOMAIN map

\* GraphicsHandler::get_pipeline: .get(name).expect(..).clone()
get_pipeline(map, name) ==
    IF HasPipeline(map, name) THEN map[name] ELSE [expect |-> "failed"]

\* Sprite::new / Primitive::pixel:
\*   gl_handler.create_empty_descriptor_set_builder("Sprite", 0)
PipelineNameOnCreate == "Sprite"

\* Sprite::draw / Primitive::draw: gl_handler.get_pipeline("Sprite")
PipelineNameOnDraw == "Sprite"

\* ------------------------------------------------------------- swapchain
\* a count without the lower bound of two images
buffers_count_NoFloor(min_image_count, max_image_count) ==
    IF max_image_count = None THEN min_image_count
    ELSE Min(min_image_count, max_image_count)

\* a count that ignores the device's maximum
buffers_count_NoLimit(min_image_count, max_image_count) ==
    Max(2, min_image_count)

\* create_raw_swapchain: buffers_count
buffers_count(min_image_count, max_image_count) ==
    IF max_image_count = None THEN Max(2, min_image_count)
    ELSE Min(Max(2, min_image_count), max_image_count)

\* the images of a chain built for `dimensions`: one extent per image
NewImages(n, dimensions) == [i \in 1..n |-> dimensions]

\* a setup that builds a framebuffer for the first image only
window_size_dependent_setup_FirstImageOnly(images) ==
    [viewport |-> images[1],
     framebuffers |-> <<images[1]>>]

\* window_size_dependent_setup: viewport from images[0], one framebuffer
\* (identified by the extent of its image view) per image
window_size_dependent_setup(images) ==
    [viewport |-> images[1],
     framebuffers |-> [i \in 1..Len(images) |-> images[i]]]

\* SwapchainHandler::new
NewSwapchainHandler(num_images, images) ==
    LET setup == window_size_dependent_setup(images)
    IN [chain |-> [num_images |-> num_images, dimensions |-> images[1]],
        images |-> images,
        framebuffers |-> setup.framebuffers,
        must_recreate |-> FALSE,
        viewport |-> setup.viewport]

\* Swapchain::recreate().dimensions(d).build(): UnsupportedDimensions
SupportedDimensions(d) == d[1] > 0 /\ d[2] > 0

\* what an update() has done so far, and whether the program dropped a
\* borrow guard since the update() before it returned
NoFrame == [rebuilds |-> 0, acquired |-> FALSE, recorded |-> FALSE,
            submitted |-> FALSE,
            reclaimed |-> {}, dead_visible |-> {}, flushed |-> <<>>,
            steps |-> <<>>, guard_dropped |-> FALSE, outcome |-> "none"]
NoEntry == [swapchain |-> [kept |-> "none"], previous_frame_end |-> "none",
            global_data |-> NoGlobalData]

\* ----------------------------------------------------------------- audio
\* mixer::allocate_channels(5)
AllocatedChannels == 5
ChannelIds == 1..AllocatedChannels

\* what Chunk::from_file(path) can return
LoadResults == {"ok", "err"}

\* no sfx_from_file has returned yet
NoSoundEffect == [data |-> "unloaded", volume |-> 0]
\* SoundEffect {data: new_chunk, volume: 30,}
SoundEffect(new_chunk) == [data |-> new_chunk, volume |-> 30]

\* a channel nothing was played on
FreeChannel == [playing |-> FALSE, volume |-> None]
NoSfxCall ==
    [op |-> "none", load |-> "none", data |-> "none", returned |-> None,
     started |-> {}]

\* AudioHandler::new: five channels, none playing, general_channel is
\* Channel::all()
AudioHandlerNew ==
    /\ chunk = NoSoundEffect
    /\ channels = [c \in ChannelIds |-> FreeChannel]
    /\ sfx_call = NoSfxCall

\* general_channel.play(chunk, 0) on Channel::all(): Ok(c) for a channel c
\* that is not playing, or Err
PlayResults(chans) == {None} \cup {c \in ChannelIds : ~chans[c].playing}

\* the channels that play after a call and did not before it
Started(before, after) ==
    {c \in ChannelIds : ~before[c].playing /\ after[c].playing}

\* AudioHandler::sfx_from_file
sfx_from_file(load) ==
    /\ chunk' = SoundEffect(IF load = "ok" THEN "some" ELSE "none")
    /\ sfx_call' = [op |-> "sfx_from_file", load |-> load,
                    data |-> chunk'.data, returned |-> None, started |-> {}]
    /\ UNCHANGED <<deviceVars, pipelines, win_size, ev_resized, channels, pc,
                   ctxVars, entityVars, draw_objects, globalVars, swapchain,
                   previous_frame_end, gpuVars, localVars, frame, entry>>

\* sfx_play that plays whatever the SoundEffect holds
sfx_play_IgnoresData(result) ==
    /\ chunk # NoSoundEffect
    /\ result \in PlayResults(channels)
    /\ LET played ==
             IF result # None
             THEN [channels EXCEPT
                       ![result] = [playing |-> TRUE, volume |-> 30]]
             ELSE channels
       IN /\ channels' = played
          /\ sfx_call' = [op |-> "sfx_play", load |-> "none",
                          data |-> chunk.data, returned |-> result,
                          started |-> Started(channels, played)]
    /\ UNCHANGED <<deviceVars, pipelines, win_size, ev_resized, chunk, pc,
                   ctxVars, entityVars, draw_objects, globalVars, swapchain,
                   previous_frame_end, gpuVars, localVars, frame, entry>>

\* AudioHandler::sfx_play; result is what general_channel.play returns when
\* it is called
sfx_play(result) ==
    /\ chunk # NoSoundEffect
    /\ result \in PlayResults(channels)
    /\ LET returned == IF chunk.data = "some" THEN result ELSE None
           played ==
             IF returned # None
             THEN [channels EXCEPT
                       ![returned] = [playing |-> TRUE, volume |-> 30]]
             ELSE channels
       IN /\ channels' = played
          /\ sfx_call' = [op |-> "sfx_play", load |-> "none",
                          data |-> chunk.data, returned |-> returned,
                          started |-> Started(channels, played)]
    /\ UNCHANGED <<deviceVars, pipelines, win_size, ev_resized, chunk, pc,
                   ctxVars, entityVars, draw_objects, globalVars, swapchain,
                   previous_frame_end, gpuVars, localVars, frame, entry>>

\* a chunk played with loops = 0 reaches its end: the channel is free again
ChannelFinished(c) ==
    /\ channels[c].playing
    /\ channels' = [channels EXCEPT ![c].playing = FALSE]
    /\ UNCHANGED <<deviceVars, pipelines, win_size, ev_resized, chunk,
                   sfx_call, pc, ctxVars, entityVars, draw_objects,
                   globalVars, swapchain, previous_frame_end, gpuVars,
                   localVars, frame, entry>>

\* ------------------------------------------------------------------ Init
\* everything GraphicsHandler::new, VideoHandler::new and AudioHandler::new
\* set up apart from the swapchain
Constructed ==
    /\ AudioHandlerNew
    /\ must_break = FALSE
    /\ window_resized = FALSE
    /\ win_size = InitialWindowSize
    /\ ev_resized = FALSE
    /\ next_id = 1
    /\ z_index = [e \in Ids |-> 0]
    /\ draw_flags = [e \in Ids |-> {}]
    /\ handle = [e \in Ids |-> FALSE]
    /\ borrow_flag = [e \in Ids |-> 0]
    /\ sprite = [e \in Ids |-> NoSprite]
    /\ cpu_buffer = [e \in Ids |-> NoSpriteData]
    /\ draw_objects = <<>>
    /\ window_size = InitialWindowSize
    /\ camera_position = <<0, 0>>
    /\ camera_scale = <<1, 1>>
    /\ previous_frame_end = "satisfied"
    /\ gpu_inflight = {}
    /\ first_frame = TRUE
    /\ last_hidden = {}
    /\ last_outcome = "none"
    /\ resized = FALSE
    /\ suboptimal = FALSE
    /\ builder = <<>>
    /\ frame = NoFrame
    /\ entry = NoEntry

\* create_raw_swapchain followed by SwapchainHandler::new; the driver may
\* hand out more images than num_images(buffers_count) asked for
create_raw_swapchain(c, extra, dimensions) ==
    LET n == buffers_count(c[1], c[2])
    IN NewSwapchainHandler(n, NewImages(n + extra, dimensions))

Init ==
    /\ pc = "loop"
    /\ devices = StartupDevices
    /\ selected = get_device(devices)
    /\ caps \in StartupCaps
    /\ pipelines = StartupPipelines
    /\ Constructed
    /\ \E extra \in 0..ExtraImages :
         swapchain = create_raw_swapchain(caps, extra, InitialWindowSize)

\* ---------------------------------------------- startup on any capabilities
\* capabilities a surface can report: min_image_count >= 1 and
\* max_image_count either absent or at least min_image_count
AllCaps ==
    {c \in (1..MaxCap) \X ({None} \cup (1..MaxCap)) :
        c[2] = None \/ c[1] <= c[2]}

InitStartup ==
    /\ pc = "startup"
    /\ devices = StartupDevices
    /\ selected = get_device(devices)
    /\ caps \in AllCaps
    /\ pipelines = <<>>
    /\ Constructed
    /\ swapchain = "none"

\* GraphicsHandler::new: create_raw_swapchain, the pipelines,
\* SwapchainHandler::new
GraphicsHandlerNew ==
    /\ pc = "startup"
    /\ \E extra \in 0..ExtraImages :
         swapchain' = create_raw_swapchain(caps, extra, win_size)
    /\ pipelines' = StartupPipelines
    /\ pc' = "loop"
    /\ UNCHANGED <<ctxVars, deviceVars, audioVars, win_size, ev_resized,
                   entityVars,
                   draw_objects, globalVars, previous_frame_end, gpuVars,
                   localVars, frame, entry>>

SpecStartup == InitStartup /\ [][GraphicsHandlerNew]_vars

\* ------------------------------------------- startup on any set of devices
InitDevice ==
    /\ pc = "enumerate"
    /\ devices \in DeviceLists
    /\ selected = NoDevice
    /\ caps \in StartupCaps
    /\ pipelines = <<>>
    /\ Constructed
    /\ swapchain = "none"

\* GraphicsHandler::new: get_device(&instance, surface); unwrap() panics
\* when no device is kept
GetDevice ==
    /\ pc = "enumerate"
    /\ selected' = get_device(devices)
    /\ pc' = IF selected' = NoDevice THEN "panic" ELSE "startup"
    /\ UNCHANGED <<ctxVars, devices, caps, pipelines, win_size, ev_resized,
                   audioVars, entityVars, draw_objects, globalVars, swapchain,
                   previous_frame_end, gpuVars, localVars, frame, entry>>

SpecDevice == InitDevice /\ [][GetDevice]_vars

\* ------------------------------------------------- entity handles (API)
\* GraphicsHandler::new_sprite / new_rectangle: the constructor of the
\* entity looks its pipeline up, then append_draw_object
new_sprite(texture_path, z) ==
    /\ pc = "loop"
    /\ next_id <= MaxEntities
    /\ LET e == next_id
           zs == [z_index EXCEPT ![e] = z]
           s == NewSprite(TextureInfo(texture_path))
           failure ==
               IF ~HasPipeline(pipelines, PipelineNameOnCreate)
               THEN "no_pipeline"
               ELSE IF SortConflict(Append(draw_objects, e), borrow_flag)
               THEN "already_borrowed"
               ELSE "none"
       IN IF failure = "none"
          THEN /\ z_index' = zs
               /\ draw_flags' = [draw_flags EXCEPT ![e] = NewDrawFlags]
               /\ handle' = [handle EXCEPT ![e] = TRUE]
               /\ sprite' = [sprite EXCEPT ![e] = s]
               /\ cpu_buffer' = [cpu_buffer EXCEPT ![e] = NewSpriteData(s)]
               /\ draw_objects' = append_draw_object(draw_objects, e, zs)
               /\ next_id' = next_id + 1
               /\ UNCHANGED <<pc, borrow_flag, frame>>
          ELSE /\ pc' = "panic"
               /\ frame' = [frame EXCEPT !.outcome = failure]
               /\ UNCHANGED <<entityVars, draw_objects>>
    /\ last_outcome' = "none"
    /\ UNCHANGED <<ctxVars, osVars, globalVars, swapchain,
                   previous_frame_end, gpu_inflight, first_frame, last_hidden,
                   localVars, entry>>

\* a drop that also takes the entity out of the registry
DropGraphicObject_Unregisters(e) ==
    /\ pc = "loop"
    /\ handle[e]
    /\ borrow_flag[e] = 0
    /\ handle' = [handle EXCEPT ![e] = FALSE]
    /\ draw_flags' = [draw_flags EXCEPT ![e] = set_dead(draw_flags[e])]
    /\ draw_objects' = SelectIds(draw_objects, Ids \ {e})
    /\ last_hidden' = last_hidden \ {e}
    /\ last_outcome' = "none"
    /\ UNCHANGED <<pc, ctxVars, osVars, next_id, z_index, borrow_flag,
                   dataVars, globalVars, swapchain, previous_frame_end,
                   gpu_inflight, first_frame, localVars, frame, entry>>

\* Drop for GraphicObject; a guard borrows the handle it came from, so the
\* handle outlives it
DropGraphicObject(e) ==
    /\ pc = "loop"
    /\ handle[e]
    /\ borrow_flag[e] = 0
    /\ handle' = [handle EXCEPT ![e] = FALSE]
    /\ draw_flags' = [draw_flags EXCEPT ![e] = set_dead(draw_flags[e])]
    /\ last_hidden' = last_hidden \ {e}
    /\ last_outcome' = "none"
    /\ UNCHANGED <<pc, ctxVars, osVars, next_id, z_index, borrow_flag,
                   dataVars, draw_objects, globalVars, swapchain,
                   previous_frame_end, gpu_inflight, first_frame, localVars,
                   frame, entry>>

\* GraphicObject::get_mut().set_visible(visible)
SetVisible(e, visible) ==
    /\ pc = "loop"
    /\ handle[e]
    /\ CanBorrowMut(borrow_flag[e])
    /\ draw_flags' =
         [draw_flags EXCEPT ![e] = set_visible(draw_flags[e], visible)]
    /\ draw_flags' # draw_flags
    /\ last_outcome' = "none"
    /\ UNCHANGED <<pc, ctxVars, osVars, next_id, z_index, handle,
                   borrow_flag, dataVars, draw_objects, globalVars,
                   swapchain, previous_frame_end, gpu_inflight, first_frame,
                   last_hidden, localVars, frame, entry>>

\* assignments to the public fields color, global_position and scale
\* through GraphicObject::get_mut()
SetSpriteFields(e, edit) ==
    /\ pc = "loop"
    /\ handle[e]
    /\ CanBorrowMut(borrow_flag[e])
    /\ sprite' = [sprite EXCEPT ![e] =
                     [@ EXCEPT !.color = edit.color,
                               !.global_position = edit.global_position,
                               !.scale = edit.scale]]
    /\ sprite' # sprite
    /\ last_outcome' = "none"
    /\ UNCHANGED <<pc, ctxVars, osVars, next_id, z_index, draw_flags, handle,
                   borrow_flag, cpu_buffer, draw_objects, globalVars,
                   swapchain, previous_frame_end, gpu_inflight, first_frame,
                   last_hidden, localVars, frame, entry>>

\* assignments to the public fields camera_position and camera_scale of
\* the GraphicsHandler
SetCamera(edit) ==
    /\ pc = "loop"
    /\ camera_position' = edit.camera_position
    /\ camera_scale' = edit.camera_scale
    /\ <<camera_position', camera_scale'>> # <<camera_position, camera_scale>>
    /\ last_outcome' = "none"
    /\ UNCHANGED <<pc, ctxVars, osVars, entityVars, draw_objects, window_size,
                   swapchain, previous_frame_end, gpu_inflight, first_frame,
                   last_hidden, localVars, frame, entry>>

\* GraphicObject::get_ref: draw_object.borrow(); the program keeps the Ref
get_ref(e) ==
    /\ pc = "loop"
    /\ handle[e]
    /\ borrow_flag[e] < MaxReaders
    /\ IF CanBorrow(borrow_flag[e])
       THEN /\ borrow_flag' =
                 [borrow_flag EXCEPT ![e] = Borrowed(borrow_flag[e])]
            /\ UNCHANGED <<pc, frame>>
       ELSE /\ pc' = "panic"
            /\ frame' = [frame EXCEPT !.outcome = "already_mutably_borrowed"]
            /\ UNCHANGED borrow_flag
    /\ last_outcome' = "none"
    /\ UNCHANGED <<ctxVars, osVars, next_id, z_index, draw_flags, handle,
                   dataVars, draw_objects, globalVars, swapchain,
                   previous_frame_end, gpu_inflight, first_frame, last_hidden,
                   localVars, entry>>

\* GraphicObject::get_mut: draw_object.borrow_mut(); the program keeps the
\* RefMut
get_mut(e) ==
    /\ pc = "loop"
    /\ handle[e]
    /\ IF CanBorrowMut(borrow_flag[e])
       THEN /\ borrow_flag' = [borrow_flag EXCEPT ![e] = 0 - 1]
            /\ UNCHANGED <<pc, frame>>
       ELSE /\ pc' = "panic"
            /\ frame' = [frame EXCEPT !.outcome = "already_borrowed"]
            /\ UNCHANGED borrow_flag
    /\ last_outcome' = "none"
    /\ UNCHANGED <<ctxVars, osVars, next_id, z_index, draw_flags, handle,
                   dataVars, draw_objects, globalVars, swapchain,
                   previous_frame_end, gpu_inflight, first_frame, last_hidden,
                   localVars, entry>>

\* the program drops a Ref or the RefMut it kept
DropGuard(e) ==
    /\ pc = "loop"
    /\ borrow_flag[e] # 0
    /\ borrow_flag' =
         [borrow_flag EXCEPT ![e] =
            IF borrow_flag[e] > 0 THEN Released(borrow_flag[e]) ELSE 0]
    /\ frame' = [frame EXCEPT !.guard_dropped = TRUE]
    /\ last_outcome' = "none"
    /\ UNCHANGED <<pc, ctxVars, osVars, next_id, z_index, draw_flags, handle,
                   dataVars, draw_objects, globalVars, swapchain,
                   previous_frame_end, gpu_inflight, first_frame, last_hidden,
                   localVars, entry>>

\* ---------------------- window, Engine::run, VideoHandler::update and
\* ---------------------- GraphicsHandler::vulkan_loop
\* the window system resizes the window and queues WindowEvent::Resized.
\* The program reads the size in vulkan_loop (when resized) and again in
\* check_and_recreate (when must_recreate): the change is taken before the
\* events are polled or between the two reads.
WindowResize(d) ==
    /\ \/ pc = "loop"
       \/ pc = "validate" /\ swapchain.must_recreate
    /\ d # win_size
    /\ win_size' = d
    /\ ev_resized' = TRUE
    /\ last_outcome' = IF pc = "loop" THEN "none" ELSE last_outcome
    /\ UNCHANGED <<deviceVars, audioVars, pipelines, pc, ctxVars, entityVars,
                   draw_objects,
                   globalVars,
                   swapchain, previous_frame_end, gpu_inflight, first_frame,
                   last_hidden, localVars, frame, entry>>

\* a loop that polls the events but does not test the break signal
check_events_NoBreak(quit) ==
    /\ pc = "loop"
    /\ must_break' = (must_break \/ quit)
    /\ window_resized' = (window_resized \/ ev_resized)
    /\ ev_resized' = FALSE
    /\ pc' = "polled"
    /\ UNCHANGED <<deviceVars, audioVars, pipelines, win_size, entityVars,
                   draw_objects, globalVars, swapchain, previous_frame_end,
                   gpuVars, localVars, frame, entry>>

\* CtxHandler::check_events, and the test that follows it in Engine::run:
\*   if get_break_signal() { break 'mainloop }
check_events(quit) ==
    /\ pc = "loop"
    /\ must_break' = (must_break \/ quit)
    /\ window_resized' = (window_resized \/ ev_resized)
    /\ ev_resized' = FALSE
    /\ IF must_break'
       THEN pc' = "stopped" /\ last_hidden' = {} /\ last_outcome' = "none"
       ELSE pc' = "polled" /\ UNCHANGED <<last_hidden, last_outcome>>
    /\ UNCHANGED <<deviceVars, audioVars, pipelines, win_size, entityVars,
                   draw_objects,
                   globalVars,
                   swapchain, previous_frame_end, gpu_inflight, first_frame,
                   localVars, frame, entry>>

\* a resolution that only looks at the request already pending
ResolveRecreate_IgnoresResize(is_resized, must_recreate) == must_recreate

\* vulkan_loop: let recreate = if resized { window_size = window.size();
\*                                           true } else { get_recreate() }
ResolveRecreate(is_resized, must_recreate) ==
    IF is_resized THEN TRUE ELSE must_recreate

\* the steps of vulkan_loop up to the call of check_and_recreate, in the
\* order of the statements: a flush that runs ahead of the reclaim pass
EnterSteps_FlushFirst ==
    <<"flush_global", "flush_entities", "reclaim", "resolve_resize">>

\* the steps of vulkan_loop up to the call of check_and_recreate, in the
\* order of the statements
EnterSteps ==
    <<"reclaim", "flush_global", "flush_entities", "resolve_resize">>

\* VideoHandler::update: let resized = get_window_resized(); vulkan_loop(..)
\* and vulkan_loop up to the call of check_and_recreate:
\*   draw_objects.retain(USED); flush_global_data();
\*   for o in &draw_objects { o.flush_data() }
\*   recreate = ...; set_recreate(recreate)
\* An entity the registry held the last reference to is freed by retain.
\* o.borrow() in retain panics on an entity with a RefMut alive.
UpdateEnter ==
    /\ pc = "polled"
    /\ ~must_break
    /\ resized' = window_resized
    /\ IF RetainConflict(draw_objects, borrow_flag)
       THEN /\ frame' = [NoFrame EXCEPT
                           !.outcome = "already_mutably_borrowed",
                           !.guard_dropped = frame.guard_dropped,
                           !.steps = <<"reclaim">>]
            /\ pc' = "panic"
            /\ last_hidden' = {}
            /\ UNCHANGED <<z_index, draw_flags, dataVars, draw_objects,
                           globalVars, swapchain, entry>>
       ELSE /\ entry' = [swapchain |-> swapchain,
                         previous_frame_end |-> previous_frame_end,
                         global_data |->
                             flush_global_data(NoGlobalData,
                                 FlushedWindowSize(window_size,
                                     IF window_resized THEN win_size
                                     ELSE window_size),
                                 camera_position, camera_scale)]
            /\ draw_objects' = RetainUsed(draw_objects, draw_flags)
            /\ LET removed == Range(draw_objects) \ Range(draw_objects')
                   freed == {e \in removed : ~handle[e]}
               IN /\ frame' = [NoFrame EXCEPT
                                 !.outcome = "running",
                                 !.reclaimed = removed,
                                 !.dead_visible =
                                     {e \in removed :
                                        VISIBLE \in draw_flags[e]},
                                 !.flushed = draw_objects',
                                 !.guard_dropped = frame.guard_dropped,
                                 !.steps = EnterSteps]
                  /\ z_index' = [e \in Ids |->
                                   IF e \in freed THEN 0 ELSE z_index[e]]
                  /\ draw_flags' = [e \in Ids |->
                                      IF e \in freed THEN {}
                                      ELSE draw_flags[e]]
                  /\ sprite' = [e \in Ids |->
                                  IF e \in freed THEN NoSprite
                                  ELSE sprite[e]]
                  /\ cpu_buffer' =
                       [e \in Ids |->
                          IF e \in freed THEN NoSpriteData
                          ELSE flush_all(draw_objects', sprite,
                                         cpu_buffer)[e]]
                  /\ last_hidden' = last_hidden \ removed
            /\ window_size' =
                 IF window_resized THEN win_size ELSE window_size
            /\ UNCHANGED <<camera_position, camera_scale>>
            /\ swapchain' = [swapchain EXCEPT !.must_recreate =
                               ResolveRecreate(window_resized,
                                               swapchain.must_recreate)]
            /\ pc' = "validate"
    /\ UNCHANGED <<ctxVars, osVars, next_id, handle, borrow_flag,
                   previous_frame_end, gpu_inflight, first_frame,
                   last_outcome, suboptimal, builder>>

\* a set_recreate that stores nothing
set_recreate_Drops(sc, new_value) == sc

\* SwapchainHandler::set_recreate
set_recreate(sc, new_value) == [sc EXCEPT !.must_recreate = new_value]

\* a validation that returns Ok(()) without looking at must_recreate
CheckNoRecreate_Always ==
    /\ pc = "validate"
    /\ entry' = [entry EXCEPT !.swapchain = [kept |-> "validated"],
                              !.global_data = NoGlobalData]
    /\ frame' = [frame EXCEPT !.steps = Append(@, "validate")]
    /\ pc' = "acquire"
    /\ UNCHANGED <<ctxVars, osVars, entityVars, draw_objects, globalVars,
                   swapchain, previous_frame_end, gpuVars, localVars>>

\* SwapchainHandler::check_and_recreate, must_recreate false: Ok(())
CheckNoRecreate ==
    /\ pc = "validate"
    /\ ~swapchain.must_recreate
    /\ entry' = [entry EXCEPT !.swapchain = [kept |-> "validated"],
                              !.global_data = NoGlobalData]
    /\ frame' = [frame EXCEPT !.steps = Append(@, "validate")]
    /\ pc' = "acquire"
    /\ UNCHANGED <<ctxVars, osVars, entityVars, draw_objects, globalVars,
                   swapchain, previous_frame_end, gpuVars, localVars>>

\* a rebuild that keeps the framebuffers and viewport of the old chain
Recreated_StaleFramebuffers(sc, new_images) ==
    [chain |-> [num_images |-> sc.chain.num_images,
                dimensions |-> new_images[1]],
     images |-> new_images,
     framebuffers |-> sc.framebuffers,
     must_recreate |-> FALSE,
     viewport |-> sc.viewport]

\* a rebuild that leaves must_recreate as it found it
Recreated_KeepsFlag(sc, new_images) ==
    LET setup == window_size_dependent_setup(new_images)
    IN [chain |-> [num_images |-> sc.chain.num_images,
                   dimensions |-> new_images[1]],
        images |-> new_images,
        framebuffers |-> setup.framebuffers,
        must_recreate |-> sc.must_recreate,
        viewport |-> setup.viewport]

\* the assignments of check_and_recreate after a successful build()
Recreated(sc, new_images) ==
    LET setup == window_size_dependent_setup(new_images)
    IN [chain |-> [num_images |-> sc.chain.num_images,
                   dimensions |-> new_images[1]],
        images |-> new_images,
        framebuffers |-> setup.framebuffers,
        must_recreate |-> FALSE,
        viewport |-> setup.viewport]

\* a rebuild that also builds the pipelines again for the new chain
CheckRecreateOk_RebuildsPipelines ==
    /\ pc = "validate"
    /\ swapchain.must_recreate
    /\ SupportedDimensions(win_size)
    /\ \E extra \in 0..ExtraImages :
         swapchain' = Recreated(swapchain,
             NewImages(swapchain.chain.num_images + extra, win_size))
    /\ pipelines' =
         [n \in DOMAIN pipelines |->
            [pipelines[n] EXCEPT !.object = "rebuilt"]]
    /\ frame' = [frame EXCEPT !.steps = Append(@, "validate"),
                              !.rebuilds = frame.rebuilds + 1]
    /\ entry' = [entry EXCEPT !.swapchain = [kept |-> "validated"],
                              !.global_data = NoGlobalData]
    /\ pc' = "acquire"
    /\ UNCHANGED <<ctxVars, deviceVars, audioVars, win_size, ev_resized,
                   entityVars,
                   draw_objects, globalVars, previous_frame_end, gpuVars,
                   localVars>>

\* SwapchainHandler::check_and_recreate, build() is Ok
CheckRecreateOk ==
    /\ pc = "validate"
    /\ swapchain.must_recreate
    /\ SupportedDimensions(win_size)
    /\ \E extra \in 0..ExtraImages :
         swapchain' = Recreated(swapchain,
             NewImages(swapchain.chain.num_images + extra, win_size))
    /\ frame' = [frame EXCEPT !.steps = Append(@, "validate"),
                              !.rebuilds = frame.rebuilds + 1]
    /\ entry' = [entry EXCEPT !.swapchain = [kept |-> "validated"],
                              !.global_data = NoGlobalData]
    /\ pc' = "acquire"
    /\ UNCHANGED <<ctxVars, osVars, entityVars, draw_objects, globalVars,
                   previous_frame_end, gpuVars, localVars>>

\* an unsupported-dimensions path that gives the rebuild request up
CheckRecreateUnsupported_ClearsFlag ==
    /\ pc = "validate"
    /\ swapchain.must_recreate
    /\ ~SupportedDimensions(win_size)
    /\ swapchain' = set_recreate(swapchain, FALSE)
    /\ frame' = [frame EXCEPT !.steps = Append(@, "validate"),
                              !.outcome = "unsupported"]
    /\ pc' = "returned"
    /\ entry' = [entry EXCEPT !.global_data = NoGlobalData]
    /\ UNCHANGED <<ctxVars, osVars, entityVars, draw_objects, globalVars,
                   previous_frame_end, gpuVars, localVars>>

\* an unsupported-dimensions path on which vulkan_loop goes on to acquire
CheckRecreateUnsupported_Acquires ==
    /\ pc = "validate"
    /\ swapchain.must_recreate
    /\ ~SupportedDimensions(win_size)
    /\ frame' = [frame EXCEPT !.steps = Append(@, "validate")]
    /\ pc' = "acquire"
    /\ entry' = [entry EXCEPT !.global_data = NoGlobalData]
    /\ UNCHANGED <<ctxVars, osVars, entityVars, draw_objects, globalVars,
                   swapchain, previous_frame_end, gpuVars, localVars>>

\* SwapchainHandler::check_and_recreate, build() is
\* Err(UnsupportedDimensions): return Err(()), vulkan_loop returns
CheckRecreateUnsupported ==
    /\ pc = "validate"
    /\ swapchain.must_recreate
    /\ ~SupportedDimensions(win_size)
    /\ frame' = [frame EXCEPT !.steps = Append(@, "validate"),
                              !.outcome = "unsupported"]
    /\ pc' = "returned"
    /\ entry' = [entry EXCEPT !.global_data = NoGlobalData]
    /\ UNCHANGED <<ctxVars, osVars, entityVars, draw_objects, globalVars,
                   swapchain, previous_frame_end, gpuVars, localVars>>

\* SwapchainHandler::check_and_recreate, build() is Err(e): panic
CheckRecreateError ==
    /\ pc = "validate"
    /\ swapchain.must_recreate
    /\ frame' = [frame EXCEPT !.steps = Append(@, "validate"),
                              !.outcome = "recreate_error"]
    /\ pc' = "panic"
    /\ last_hidden' = {}
    /\ last_outcome' = "none"
    /\ entry' = [entry EXCEPT !.global_data = NoGlobalData]
    /\ UNCHANGED <<ctxVars, osVars, entityVars, draw_objects, globalVars,
                   swapchain, previous_frame_end, gpu_inflight, first_frame,
                   localVars>>

\* acquire_next_image is Ok((image_num, suboptimal, acquire_future)):
\* set_recreate(suboptimal), begin_render_pass(framebuffers[image_num]),
\* one draw call per entity that passes the filter, each through
\* obj.borrow_mut() and with the pipeline its draw() looks up,
\* end_render_pass, build
AcquireOk(image_num, sub) ==
    /\ pc = "acquire"
    /\ image_num \in 0..(Len(swapchain.images) - 1)
    /\ suboptimal' = sub
    /\ swapchain' = set_recreate(swapchain, sub)
    /\ LET calls == FilterVisible(draw_objects, draw_flags)
           failure ==
               IF ~(image_num + 1 \in DOMAIN swapchain.framebuffers)
               THEN "index_out_of_bounds"
               ELSE IF calls # <<>> /\ DrawConflict(borrow_flag[calls[1]])
               THEN "already_borrowed"
               ELSE IF calls # <<>>
                       /\ ~HasPipeline(pipelines, PipelineNameOnDraw)
               THEN "no_pipeline"
               ELSE IF \E e \in Range(calls) : DrawConflict(borrow_flag[e])
               THEN "already_borrowed"
               ELSE "none"
       IN IF failure = "none"
          THEN /\ builder' = calls
               /\ frame' = [frame EXCEPT
                              !.steps = @ \o <<"acquire", "record">>,
                              !.acquired = TRUE,
                              !.recorded = TRUE]
               /\ pc' = "submit"
          ELSE /\ frame' = [frame EXCEPT
                              !.steps = @ \o <<"acquire", "record">>,
                              !.acquired = TRUE,
                              !.outcome = failure]
               /\ pc' = "panic"
               /\ UNCHANGED builder
    /\ UNCHANGED <<ctxVars, osVars, entityVars, draw_objects, globalVars,
                   previous_frame_end, gpuVars, resized, entry>>

\* an out-of-date path that returns without set_recreate(true)
AcquireOutOfDate_NoRecreate ==
    /\ pc = "acquire"
    /\ frame' = [frame EXCEPT !.steps = Append(@, "acquire"),
                              !.outcome = "acquire_out_of_date"]
    /\ pc' = "returned"
    /\ UNCHANGED <<ctxVars, osVars, entityVars, draw_objects, globalVars,
                   swapchain, previous_frame_end, gpuVars, localVars, entry>>

\* acquire_next_image is Err(AcquireError::OutOfDate)
AcquireOutOfDate ==
    /\ pc = "acquire"
    /\ swapchain' = set_recreate(swapchain, TRUE)
    /\ frame' = [frame EXCEPT !.steps = Append(@, "acquire"),
                              !.outcome = "acquire_out_of_date"]
    /\ pc' = "returned"
    /\ UNCHANGED <<ctxVars, osVars, entityVars, draw_objects, globalVars,
                   previous_frame_end, gpuVars, localVars, entry>>

\* an acquire failure that is treated like out-of-date: skip the frame
AcquireError_Skips ==
    /\ pc = "acquire"
    /\ swapchain' = set_recreate(swapchain, TRUE)
    /\ frame' = [frame EXCEPT !.steps = Append(@, "acquire"),
                              !.outcome = "acquire_error"]
    /\ pc' = "returned"
    /\ UNCHANGED <<ctxVars, osVars, entityVars, draw_objects, globalVars,
                   previous_frame_end, gpuVars, localVars, entry>>

\* acquire_next_image is Err(e): panic
AcquireError ==
    /\ pc = "acquire"
    /\ frame' = [frame EXCEPT !.steps = Append(@, "acquire"),
                              !.outcome = "acquire_error"]
    /\ pc' = "panic"
    /\ last_hidden' = {}
    /\ last_outcome' = "none"
    /\ UNCHANGED <<ctxVars, osVars, entityVars, draw_objects, globalVars,
                   swapchain, previous_frame_end, gpu_inflight, first_frame,
                   localVars, entry>>

\* Every submit step starts with previous_frame_end.take().unwrap() and,
\* unless it panics, ends with
\* previous_frame_end.as_mut().unwrap().cleanup_finished() and the return.

\* a success path that retains the fence future without waiting on it
SubmitOk_NoWait ==
    /\ pc = "submit"
    /\ previous_frame_end # "none"
    /\ gpu_inflight' = Range(builder)
    /\ previous_frame_end' = "pending"
    /\ frame' = [frame EXCEPT !.steps = Append(@, "submit"),
                              !.submitted = TRUE,
                              !.outcome = "presented"]
    /\ pc' = "returned"
    /\ UNCHANGED <<ctxVars, osVars, entityVars, draw_objects, globalVars,
                   swapchain, first_frame, last_hidden, last_outcome,
                   resized, suboptimal, builder, entry>>

\* then_signal_fence_and_flush() is Ok(future), future.wait(10 s) is Ok:
\* the submitted work has retired when the fence future is retained
SubmitOk ==
    /\ pc = "submit"
    /\ IF previous_frame_end = "none"
       THEN /\ pc' = "panic"
            /\ frame' = [frame EXCEPT !.steps = Append(@, "submit"),
                                      !.outcome = "unwrap_none"]
            /\ UNCHANGED <<previous_frame_end, gpu_inflight>>
       ELSE /\ gpu_inflight' = {}
            /\ previous_frame_end' = "satisfied"
            /\ frame' = [frame EXCEPT !.steps = Append(@, "submit"),
                                      !.submitted = TRUE,
                                      !.outcome = "presented"]
            /\ pc' = "returned"
    /\ UNCHANGED <<ctxVars, osVars, entityVars, draw_objects, globalVars,
                   swapchain, first_frame, last_hidden, last_outcome,
                   resized, suboptimal, builder, entry>>

\* a wait whose timeout is ignored: the fence future is retained unsignalled
SubmitTimeout_Returns ==
    /\ pc = "submit"
    /\ previous_frame_end # "none"
    /\ gpu_inflight' = Range(builder)
    /\ previous_frame_end' = "pending"
    /\ frame' = [frame EXCEPT !.steps = Append(@, "submit"),
                              !.submitted = TRUE,
                              !.outcome = "gpu_timeout"]
    /\ pc' = "returned"
    /\ UNCHANGED <<ctxVars, osVars, entityVars, draw_objects, globalVars,
                   swapchain, first_frame, last_hidden, last_outcome,
                   resized, suboptimal, builder, entry>>

\* Ok(future) but future.wait(10 s) fails: expect() panics while the
\* submitted commands are still executing
SubmitTimeout ==
    /\ pc = "submit"
    /\ previous_frame_end # "none"
    /\ gpu_inflight' = Range(builder)
    /\ previous_frame_end' = "none"
    /\ frame' = [frame EXCEPT !.steps = Append(@, "submit"),
                              !.submitted = TRUE,
                              !.outcome = "gpu_timeout"]
    /\ pc' = "panic"
    /\ last_hidden' = {}
    /\ last_outcome' = "none"
    /\ UNCHANGED <<ctxVars, osVars, entityVars, draw_objects, globalVars,
                   swapchain, first_frame, resized, suboptimal, builder,
                   entry>>

\* an out-of-date arm that resets the signal but asks for no rebuild
SubmitOutOfDate_NoRecreate ==
    /\ pc = "submit"
    /\ previous_frame_end # "none"
    /\ previous_frame_end' = "satisfied"
    /\ frame' = [frame EXCEPT !.steps = Append(@, "submit"),
                              !.outcome = "flush_out_of_date"]
    /\ pc' = "returned"
    /\ UNCHANGED <<ctxVars, osVars, entityVars, draw_objects, globalVars,
                   swapchain, gpuVars, resized, suboptimal, builder, entry>>

\* an out-of-date arm that retains no signal after the take()
SubmitOutOfDate_NothingRetained ==
    /\ pc = "submit"
    /\ previous_frame_end # "none"
    /\ swapchain' = set_recreate(swapchain, TRUE)
    /\ previous_frame_end' = "none"
    /\ frame' = [frame EXCEPT !.steps = Append(@, "submit"),
                              !.outcome = "flush_out_of_date"]
    /\ pc' = "returned"
    /\ UNCHANGED <<ctxVars, osVars, entityVars, draw_objects, globalVars,
                   gpuVars, resized, suboptimal, builder, entry>>

\* Err(FlushError::OutOfDate): set_recreate(true), the retained signal
\* becomes sync::now
SubmitOutOfDate ==
    /\ pc = "submit"
    /\ previous_frame_end # "none"
    /\ swapchain' = set_recreate(swapchain, TRUE)
    /\ previous_frame_end' = "satisfied"
    /\ frame' = [frame EXCEPT !.steps = Append(@, "submit"),
                              !.outcome = "flush_out_of_date"]
    /\ pc' = "returned"
    /\ UNCHANGED <<ctxVars, osVars, entityVars, draw_objects, globalVars,
                   gpuVars, resized, suboptimal, builder, entry>>

\* an error arm that puts nothing back after previous_frame_end.take()
SubmitError_NoReset ==
    /\ pc = "submit"
    /\ previous_frame_end # "none"
    /\ previous_frame_end' = "none"
    /\ frame' = [frame EXCEPT !.steps = Append(@, "submit"),
                              !.outcome = "flush_error"]
    /\ pc' = "returned"
    /\ UNCHANGED <<ctxVars, osVars, entityVars, draw_objects, globalVars,
                   swapchain, gpuVars, resized, suboptimal, builder, entry>>

\* Err(e): eprintln!, the retained signal becomes sync::now
SubmitError ==
    /\ pc = "submit"
    /\ previous_frame_end # "none"
    /\ previous_frame_end' = "satisfied"
    /\ frame' = [frame EXCEPT !.steps = Append(@, "submit"),
                              !.outcome = "flush_error"]
    /\ pc' = "returned"
    /\ UNCHANGED <<ctxVars, osVars, entityVars, draw_objects, globalVars,
                   swapchain, gpuVars, resized, suboptimal, builder, entry>>

\* the outcomes of an update() whose then_signal_fence_and_flush() is Err
FlushFailures == {"flush_out_of_date", "flush_error"}

\* an update() that returns without set_window_resized(false)
UpdateReturn_KeepsResized ==
    /\ pc = "returned"
    /\ window_resized' = window_resized
    /\ resized' = FALSE
    /\ suboptimal' = FALSE
    /\ builder' = <<>>
    /\ frame' = NoFrame
    /\ entry' = NoEntry
    /\ first_frame' = FALSE
    /\ last_outcome' = IF frame.outcome \in FlushFailures
                       THEN frame.outcome ELSE "none"
    /\ last_hidden' = IF frame.recorded
                      THEN {e \in Range(draw_objects) \ Range(builder) :
                              handle[e]}
                      ELSE last_hidden
    /\ pc' = "loop"
    /\ UNCHANGED <<must_break, osVars, entityVars, draw_objects, globalVars,
                   swapchain, previous_frame_end, gpu_inflight>>

\* VideoHandler::update after vulkan_loop: set_window_resized(false); Ok(())
\* and Engine::run: fps_manager.delay(), next iteration
UpdateReturn ==
    /\ pc = "returned"
    /\ window_resized' = FALSE
    /\ resized' = FALSE
    /\ suboptimal' = FALSE
    /\ builder' = <<>>
    /\ frame' = NoFrame
    /\ entry' = NoEntry
    /\ first_frame' = FALSE
    /\ last_outcome' = IF frame.outcome \in FlushFailures
                       THEN frame.outcome ELSE "none"
    /\ last_hidden' = IF frame.recorded
                      THEN {e \in Range(draw_objects) \ Range(builder) :
                              handle[e]}
                      ELSE last_hidden
    /\ pc' = "loop"
    /\ UNCHANGED <<must_break, osVars, entityVars, draw_objects, globalVars,
                   swapchain, previous_frame_end, gpu_inflight>>

\* ------------------------------------------------------------------ Next
Next ==
    \/ \E t \in Textures, z \in ZValues : new_sprite(t, z)
    \/ \E e \in Ids : DropGraphicObject(e)
    \/ \E e \in Ids, v \in BOOLEAN : SetVisible(e, v)
    \/ \E d \in WindowSizes : WindowResize(d)
    \/ \E quit \in BOOLEAN : check_events(quit)
    \/ UpdateEnter
    \/ CheckNoRecreate
    \/ CheckRecreateOk
    \/ CheckRecreateUnsupported
    \/ CheckRecreateError
    \/ \E num \in 0..(MaxCap + ExtraImages), sub \in BOOLEAN :
         AcquireOk(num, sub)
    \/ AcquireOutOfDate
    \/ AcquireError
    \/ SubmitOk
    \/ SubmitTimeout
    \/ SubmitOutOfDate
    \/ SubmitError
    \/ UpdateReturn

Spec == Init /\ [][Next]_vars

\* ------------------------------------------ the program writes its entities
\* the loop of a program that also writes the public fields of its
\* entities between two update() calls, on a window
\* that is never resized and a device that presents every frame
NextData ==
    \/ \E t \in Textures, z \in ZValues : new_sprite(t, z)
    \/ \E e \in Ids : DropGraphicObject(e)
    \/ \E e \in Ids, v \in BOOLEAN : SetVisible(e, v)
    \/ \E e \in Ids, edit \in SpriteEdits : SetSpriteFields(e, edit)
    \/ \E quit \in BOOLEAN : check_events(quit)
    \/ UpdateEnter
    \/ CheckNoRecreate
    \/ \E num \in 0..(MaxCap + ExtraImages) : AcquireOk(num, FALSE)
    \/ SubmitOk
    \/ UpdateReturn

SpecData == Init /\ [][NextData]_vars

\* ------------------------------------- the program moves the camera
\* the loop of a program that creates no entity and assigns the camera
\* fields between updates, on a window that is resized and a device that
\* presents every frame it is given
NextGlobal ==
    \/ \E edit \in CameraEdits : SetCamera(edit)
    \/ \E d \in WindowSizes : WindowResize(d)
    \/ \E quit \in BOOLEAN : check_events(quit)
    \/ UpdateEnter
    \/ CheckNoRecreate
    \/ CheckRecreateOk
    \/ CheckRecreateUnsupported
    \/ \E num \in 0..(MaxCap + ExtraImages), sub \in BOOLEAN :
          AcquireOk(num, sub)
    \/ AcquireOutOfDate
    \/ SubmitOk
    \/ SubmitOutOfDate
    \/ UpdateReturn

SpecGlobal == Init /\ [][NextGlobal]_vars

\* ------------------------------------- the program plays sound effects
\* the calls run() makes into AudioHandler before the loop, any number of
\* times, while the mixer plays what it was given
NextAudio ==
    \/ \E load \in LoadResults : sfx_from_file(load)
    \/ \E result \in {None} \cup ChannelIds : sfx_play(result)
    \/ \E c \in ChannelIds : ChannelFinished(c)

SpecAudio == Init /\ [][NextAudio]_vars

\* ----------------------------------------- the program keeps borrow guards
\* the loop of a program that also keeps the guards get_ref() and get_mut()
\* return for as long as it likes, on a window that is never resized and a
\* device that presents every frame
NextBorrow ==
    \/ \E t \in Textures, z \in ZValues : new_sprite(t, z)
    \/ \E e \in Ids : DropGraphicObject(e)
    \/ \E e \in Ids, v \in BOOLEAN : SetVisible(e, v)
    \/ \E e \in Ids : get_ref(e)
    \/ \E e \in Ids : get_mut(e)
    \/ \E e \in Ids : DropGuard(e)
    \/ \E quit \in BOOLEAN : check_events(quit)
    \/ UpdateEnter
    \/ CheckNoRecreate
    \/ \E num \in 0..(MaxCap + ExtraImages) : AcquireOk(num, FALSE)
    \/ SubmitOk
    \/ UpdateReturn

SpecBorrow == Init /\ [][NextBorrow]_vars

\* ------------------------------------------------- the loop keeps running
\* Engine::run without entities: the window system and the event pump on
\* one side, the steps of the loop on the other
NextWindow ==
    \E d \in WindowSizes : WindowResize(d)

NextLoop ==
    \/ \E quit \in BOOLEAN : check_events(quit)
    \/ UpdateEnter
    \/ CheckNoRecreate
    \/ CheckRecreateOk
    \/ CheckRecreateUnsupported
    \/ CheckRecreateError
    \/ \E num \in 0..(MaxCap + ExtraImages), sub \in BOOLEAN :
         AcquireOk(num, sub)
    \/ AcquireOutOfDate
    \/ AcquireError
    \/ SubmitOk
    \/ SubmitTimeout
    \/ SubmitOutOfDate
    \/ SubmitError
    \/ UpdateReturn

\* the thread of Engine::run does not stall: while a step of the loop is
\* possible one is taken.  Nothing is assumed of the window system, of the
\* events or of the results the device returns.
SpecLive ==
    Init /\ [][NextWindow \/ NextLoop]_vars /\ WF_vars(NextLoop)

\* =================================================================== claims
Created(e) == e < next_id
Registered(e) == e \in Range(draw_objects)
\* vulkan_loop has run its reclaim pass and has not handed control back
PastReclaim == pc \in {"validate", "acquire", "submit", "returned", "panic"}

\* C1: no entity whose USED flag is unset is issued a draw call: every draw
\* call recorded by an update() is for an entity with USED set, whatever
\* the VISIBLE flag of the entities that were dropped.
C1_UnusedNeverDrawn ==
    \A i \in DOMAIN builder : USED \in draw_flags[builder[i]]

\* C1 witness: an update() reclaimed a dropped entity whose VISIBLE flag was
\* still set and then recorded draw calls for the others.
C1_Witness ==
    /\ pc = "submit"
    /\ frame.dead_visible # {}
    /\ builder # <<>>
    /\ frame.dead_visible \cap Range(builder) = {}

\* C2: the registry list is non-decreasing in z-index, and entities of
\* equal z-index are in creation order (ids are creation sequence numbers).
C2_SortedStable ==
    \A i, j \in DOMAIN draw_objects :
        i < j =>
            /\ z_index[draw_objects[i]] <= z_index[draw_objects[j]]
            /\ z_index[draw_objects[i]] = z_index[draw_objects[j]]
                   => draw_objects[i] < draw_objects[j]

\* C2 witness: an entity created later with a lower z-index stands in front
\* of an earlier one.
C2_Witness ==
    \E i, j \in DOMAIN draw_objects :
        /\ i < j
        /\ draw_objects[i] > draw_objects[j]
        /\ z_index[draw_objects[i]] < z_index[draw_objects[j]]

\* the step drops the handle of e
Drops(e) == handle[e] /\ ~handle'[e]

\* C3: dropping a handle only clears USED of that entity and leaves the
\* registry as it is; once the next update() has run its reclaim pass no
\* dropped entity is in the registry, draw calls are only issued for
\* registry members, and an entity that left the registry never returns.
C3_DropThenReclaim ==
    /\ [][\A e \in Ids : Drops(e) =>
            /\ draw_objects' = draw_objects
            /\ Registered(e)
            /\ draw_flags' =
                 [draw_flags EXCEPT ![e] = draw_flags[e] \ {USED}]
            /\ z_index' = z_index]_vars
    /\ [](PastReclaim =>
            \A e \in Ids : Created(e) /\ ~handle[e] => ~Registered(e))
    /\ [](Range(builder) \subseteq Range(draw_objects))
    /\ [][\A e \in Ids : Created(e) /\ ~Registered(e)
                            => ~(e \in Range(draw_objects'))]_vars

\* C3 witness: an update() that removed a dropped entity in its reclaim pass
\* has recorded its draw pass without it.
C3_Witness ==
    /\ pc = "returned"
    /\ frame.recorded
    /\ \E e \in frame.reclaimed :
          ~handle[e] /\ ~Registered(e) /\ ~(e \in Range(builder))

\* C4: in every recorded draw pass a registry entity is drawn exactly if its
\* VISIBLE flag is set, so a hidden entity is not drawn and is drawn again
\* once VISIBLE is back; no step removes an entity whose USED flag is set.
C4_HiddenKeptNotDrawn ==
    /\ [](frame.recorded =>
            \A e \in Range(draw_objects) :
                (e \in Range(builder)) <=> (VISIBLE \in draw_flags[e]))
    /\ [][\A e \in Range(draw_objects) :
             USED \in draw_flags[e] => e \in Range(draw_objects')]_vars

\* C4 witness: an entity the previous draw pass left out because it was
\* hidden is still registered and is drawn by this pass.
C4_Witness ==
    /\ pc = "submit"
    /\ \E e \in last_hidden : e \in Range(builder) /\ handle[e]

\* the retained completion signal is present and already satisfied
Satisfied(f) == f = "satisfied"

\* a step of check_and_recreate that found must_recreate set called build()
RebuildAttempted ==
    pc = "validate" /\ pc' # "validate" /\ swapchain.must_recreate =>
        \/ frame'.rebuilds = frame.rebuilds + 1
        \/ frame'.outcome \in {"unsupported", "recreate_error"}

\* a rebuild request survives from the return of update() to the
\* validation step of the next update()
RequestKept ==
    pc \in {"returned", "loop", "polled"}
        /\ swapchain.must_recreate => swapchain'.must_recreate

\* C5: an update() called with the resize flag that does not meet
\* unsupported dimensions returns after exactly one rebuild, with the
\* viewport equal to the extent of the new images and one framebuffer per
\* image of the new chain; the new extent is the window size read by the
\* rebuild.
C5_ResizeRebuildsOnce ==
    /\ (pc = "returned" /\ resized /\ frame.outcome # "unsupported" =>
            /\ frame.rebuilds = 1
            /\ swapchain.viewport = swapchain.chain.dimensions
            /\ \A i \in DOMAIN swapchain.images :
                   swapchain.images[i] = swapchain.viewport
            /\ Len(swapchain.framebuffers) = Len(swapchain.images)
            /\ swapchain.framebuffers = swapchain.images)
    /\ (pc = "acquire" /\ frame.rebuilds = 1 =>
            swapchain.viewport = win_size)
    /\ frame.rebuilds <= 1

\* C5 witness: an update() with the resize flag has returned after one
\* rebuild with a viewport that is the new window size and not the one the
\* engine started with.
C5_Witness ==
    /\ pc = "returned"
    /\ resized
    /\ frame.rebuilds = 1
    /\ swapchain.viewport # InitialWindowSize
    /\ swapchain.viewport = win_size

\* C6: an update() that meets out-of-date at image acquisition returns
\* with nothing recorded or submitted, the retained completion signal
\* untouched and satisfied, and must_recreate true; the request is kept
\* until the next validation, which calls build().
C6_AcquireOutOfDateSkips ==
    /\ [](pc = "returned" /\ frame.outcome = "acquire_out_of_date" =>
            /\ ~frame.recorded /\ ~frame.submitted /\ builder = <<>>
            /\ previous_frame_end = entry.previous_frame_end
            /\ Satisfied(previous_frame_end)
            /\ gpu_inflight = {}
            /\ swapchain.must_recreate)
    /\ [][RequestKept /\ RebuildAttempted]_vars

\* C6 witness: an update() entered with no rebuild pending has returned on
\* out-of-date.
C6_Witness ==
    /\ pc = "returned"
    /\ frame.outcome = "acquire_out_of_date"
    /\ ~resized
    /\ frame.rebuilds = 0

\* C7: an update() whose rebuild meets unsupported dimensions returns with
\* no image acquired and nothing recorded or submitted; chain, images,
\* framebuffers and viewport are those of the entry to update(), the
\* retained completion signal is untouched, and must_recreate is true and
\* stays true until the next validation calls build() again.
C7_UnsupportedSkips ==
    /\ [](pc = "returned" /\ frame.outcome = "unsupported" =>
            /\ ~frame.acquired /\ ~frame.recorded /\ ~frame.submitted
            /\ frame.rebuilds = 0
            /\ swapchain.chain = entry.swapchain.chain
            /\ swapchain.images = entry.swapchain.images
            /\ swapchain.framebuffers = entry.swapchain.framebuffers
            /\ swapchain.viewport = entry.swapchain.viewport
            /\ previous_frame_end = entry.previous_frame_end
            /\ swapchain.must_recreate)
    /\ [][(pc \in {"returned", "loop", "polled"}
             /\ swapchain.must_recreate => swapchain'.must_recreate)
          /\ (pc = "validate" /\ swapchain.must_recreate
                /\ ~SupportedDimensions(win_size) /\ pc' # "validate"
                => pc' \in {"returned", "panic"}
                   /\ frame'.rebuilds = frame.rebuilds)]_vars

\* C7 witness: the update() after a skipped rebuild skips it again: it was
\* entered without the resize flag, with must_recreate pending, and met
\* unsupported dimensions.
C7_Witness ==
    /\ pc = "returned"
    /\ frame.outcome = "unsupported"
    /\ ~resized
    /\ entry.swapchain.must_recreate

\* C8: whenever update() has returned, and until the next one has run its
\* reclaim pass, the retained completion signal is satisfied and no
\* submitted work is unretired, so the reclaim pass removes no entity that
\* in-flight work references.
C8_NothingInFlightAtReturn ==
    /\ [](pc \in {"returned", "loop", "polled", "stopped"} =>
            Satisfied(previous_frame_end) /\ gpu_inflight = {})
    /\ [][pc = "polled" /\ pc' = "validate" =>
            frame'.reclaimed \cap gpu_inflight = {}]_vars

\* C8 witness: an update() that follows a returned one reclaims an entity
\* that the earlier draw pass left out, with the retained signal satisfied.
C8_Witness ==
    /\ pc = "validate"
    /\ ~first_frame
    /\ frame.reclaimed # {}
    /\ previous_frame_end = "satisfied"

\* C9: an entity created and dropped before the first update() stays in
\* the registry until that update(), whose reclaim pass removes it before
\* anything is flushed or drawn; it never returns to the registry, and
\* only registry members are flushed or drawn.
C9_DroppedBeforeFirstUpdate ==
    /\ [](first_frame =>
            \A e \in Ids : Created(e) /\ ~handle[e] =>
                IF PastReclaim
                THEN /\ e \in frame.reclaimed
                     /\ ~Registered(e)
                     /\ ~(e \in Range(frame.flushed))
                     /\ ~(e \in Range(builder))
                ELSE Registered(e))
    /\ [](Range(frame.flushed) \cup Range(builder)
            \subseteq Range(draw_objects))
    /\ [][\A e \in Ids : Created(e) /\ ~Registered(e)
                            => ~Registered(e)']_vars

\* C9 witness: the first update() has removed such an entity and goes on
\* to draw another one.
C9_Witness ==
    /\ first_frame
    /\ pc = "submit"
    /\ frame.reclaimed # {}
    /\ builder # <<>>

\* the smallest element of a set of numbers
Least(S) == CHOOSE v \in S : \A w \in S : v <= w
\* the largest element of a set of numbers
Greatest(S) == CHOOSE v \in S : \A w \in S : v >= w

\* C10: the image count asked for at startup is the smaller of
\* max(2, min_image_count) and max_image_count when there is a maximum and
\* max(2, min_image_count) when there is none; (2, 3) gives 2 and
\* (4, None) gives 4.
C10_BuffersCount ==
    pc = "loop" =>
        /\ swapchain.chain.num_images =
             IF caps[2] = None
             THEN Greatest({2, caps[1]})
             ELSE Least({Greatest({2, caps[1]}), caps[2]})
        /\ caps = <<2, 3>> => swapchain.chain.num_images = 2
        /\ caps = <<4, None>> => swapchain.chain.num_images = 4

\* C10 witness: a chain created on a surface without a maximum whose
\* minimum is above two.
C10_Witness ==
    /\ pc = "loop"
    /\ caps = <<4, None>>
    /\ swapchain.chain.num_images = 4

\* C11 as stated: the image count lies in
\* [max(2, min_image_count), max_image_count], the upper end being absent
\* when the surface reports no maximum.
C11_InInterval ==
    pc = "loop" =>
        /\ swapchain.chain.num_images >= Greatest({2, caps[1]})
        /\ caps[2] # None => swapchain.chain.num_images <= caps[2]

\* C11, amended: the image count never exceeds a reported maximum and is
\* never below min_image_count; it is at least max(2, min_image_count)
\* exactly when there is no maximum or the maximum is at least 2.  On a
\* surface whose maximum is 1 the interval is empty and the count is 1.
C11_CountWithinDeviceLimits ==
    pc = "loop" =>
        /\ caps[2] # None => swapchain.chain.num_images <= caps[2]
        /\ swapchain.chain.num_images >= caps[1]
        /\ (swapchain.chain.num_images >= Greatest({2, caps[1]}))
              <=> (caps[2] = None \/ caps[2] >= 2)
        /\ caps = <<1, 1>> => swapchain.chain.num_images = 1

\* C11 witness: a chain created on a surface that allows a single image.
C11_Witness ==
    /\ pc = "loop"
    /\ caps = <<1, 1>>
    /\ swapchain.chain.num_images < 2

\* C12: an update() whose submission reports out-of-date returns with
\* must_recreate true and a satisfied completion signal and nothing in
\* flight; the request is kept, so the update() that follows enters with the
\* satisfied signal and reaches image acquisition only through one rebuild.
C12_FlushOutOfDate ==
    /\ [](pc = "returned" /\ frame.outcome = "flush_out_of_date" =>
            /\ swapchain.must_recreate
            /\ Satisfied(previous_frame_end)
            /\ gpu_inflight = {})
    /\ [](last_outcome = "flush_out_of_date" =>
            /\ pc \in {"loop", "polled", "validate"} =>
                  swapchain.must_recreate /\ Satisfied(previous_frame_end)
            /\ pc \in {"validate", "acquire", "submit", "returned"} =>
                  Satisfied(entry.previous_frame_end)
            /\ pc \in {"acquire", "submit"} => frame.rebuilds = 1
            /\ pc = "returned" =>
                  frame.rebuilds = 1 \/ frame.outcome = "unsupported")
    /\ [][(pc \in {"returned", "loop", "polled"}) /\ swapchain.must_recreate
             => swapchain'.must_recreate]_vars
    /\ [][pc = "validate" /\ swapchain.must_recreate /\ pc' = "acquire"
             => frame'.rebuilds = frame.rebuilds + 1]_vars

\* C12 witness: the update() after an out-of-date submission, entered
\* without the resize flag, has rebuilt the swapchain and submits a frame.
C12_Witness ==
    /\ last_outcome = "flush_out_of_date"
    /\ pc = "submit"
    /\ ~resized
    /\ frame.rebuilds = 1
    /\ Satisfied(entry.previous_frame_end)

\* C13: an update() whose submission fails with another error returns
\* normally with a satisfied completion signal, nothing in flight and
\* must_recreate as image acquisition left it; every submission finds a
\* completion signal to take, so the update() that follows never stops at
\* previous_frame_end.take().unwrap().
C13_FlushErrorContinues ==
    /\ [][pc = "submit" /\ frame'.outcome = "flush_error" =>
            /\ pc' = "returned"
            /\ swapchain' = swapchain]_vars
    /\ [](frame.outcome = "flush_error" =>
            /\ pc = "returned"
            /\ Satisfied(previous_frame_end)
            /\ gpu_inflight = {}
            /\ swapchain.must_recreate = suboptimal)
    /\ [](pc = "submit" => previous_frame_end # "none")
    /\ [](frame.outcome # "unwrap_none")
    /\ [](last_outcome = "flush_error" /\ pc \in {"loop", "polled"} =>
            Satisfied(previous_frame_end))

\* C13 witness: the update() after a failed submission has acquired an
\* image, submitted a frame and presented it.
C13_Witness ==
    /\ last_outcome = "flush_error"
    /\ pc = "returned"
    /\ frame.acquired
    /\ frame.submitted
    /\ frame.outcome = "presented"

\* C14: a timeout of the wait on a submitted frame's fence ends the run:
\* the update() is in the fatal state with the frame submitted, it never
\* returns, and no step follows, so no further frame is submitted.
C14_TimeoutIsFatal ==
    /\ [](frame.outcome = "gpu_timeout" => pc = "panic" /\ frame.submitted)
    /\ [][pc = "panic" => pc' = "panic" /\ frame' = frame]_vars
    /\ [][frame'.submitted /\ ~frame.submitted => pc # "panic"]_vars

\* C14 witness: the wait has timed out while the submitted draw calls were
\* still executing.
C14_Witness ==
    /\ pc = "panic"
    /\ frame.outcome = "gpu_timeout"
    /\ frame.submitted
    /\ gpu_inflight # {}

\* C15: a failure of image acquisition other than out-of-date and a
\* failure of the rebuild other than unsupported dimensions end the run in
\* that update(): nothing has been recorded or submitted, the completion
\* signal is untouched, and no step follows, so neither is tried again.
C15_AcquireAndRebuildFailuresFatal ==
    /\ [](frame.outcome \in {"acquire_error", "recreate_error"} =>
            /\ pc = "panic"
            /\ ~frame.recorded /\ ~frame.submitted /\ builder = <<>>
            /\ previous_frame_end = entry.previous_frame_end
            /\ gpu_inflight = {})
    /\ [](frame.outcome = "recreate_error" =>
            ~frame.acquired /\ frame.rebuilds = 0)
    /\ [][pc = "panic" => UNCHANGED <<pc, frame, swapchain,
                                       previous_frame_end>>]_vars

\* C15 witness: image acquisition has failed right after a rebuild that
\* succeeded.
C15_Witness ==
    /\ pc = "panic"
    /\ frame.outcome = "acquire_error"
    /\ frame.rebuilds = 1

\* C16: the names that entity construction and the draw calls look up are
\* registered from construction on, so no lookup ever fails: no step ends in
\* the unknown-name fatal error, and each lookup yields the pipeline that
\* startup registered under that name.
C16_LookupsAreRegistered ==
    /\ {PipelineNameOnCreate, PipelineNameOnDraw} \subseteq DOMAIN pipelines
    /\ frame.outcome # "no_pipeline"
    /\ get_pipeline(pipelines, PipelineNameOnCreate) # [expect |-> "failed"]
    /\ get_pipeline(pipelines, PipelineNameOnDraw)
          = StartupPipelines[PipelineNameOnDraw]

\* C16 witness: entities were constructed and an update() has recorded a
\* draw call for each of them with the looked-up pipeline.
C16_Witness ==
    /\ pc = "submit"
    /\ Len(builder) = MaxEntities
    /\ HasPipeline(pipelines, PipelineNameOnDraw)

\* a pipeline map is what startup registered: both names, each bound to
\* the pipeline built for it
C17_AsRegistered(map) ==
    /\ DOMAIN map = {"Primitive", "Sprite"}
    /\ map = StartupPipelines

\* C17: no step changes the pipeline map; it stays what construction
\* registered through entity creation, handle operations, update(), resize
\* and swapchain rebuild.
C17_PipelinesFixed ==
    /\ [][pipelines' = pipelines]_vars
    /\ [](C17_AsRegistered(pipelines))

\* C17 witness: after a resize, a swapchain rebuild, entity creation, a
\* handle drop and a presented frame the map is the registered one.
C17_Witness ==
    /\ pc = "returned"
    /\ resized
    /\ frame.rebuilds = 1
    /\ frame.outcome = "presented"
    /\ frame.reclaimed # {}
    /\ builder # <<>>
    /\ C17_AsRegistered(pipelines)

\* the order of preference among device types, most preferred first
C18_Preference ==
    <<"DiscreteGpu", "IntegratedGpu", "VirtualGpu", "Cpu", "Other">>

\* the place of a device type in the order of preference
C18_Place(t) == CHOOSE k \in DOMAIN C18_Preference : C18_Preference[k] = t

\* device i has a queue family for graphics and presentation
C18_Qualifies(i) ==
    \E k \in DOMAIN devices[i].queue_families :
        /\ devices[i].queue_families[k].graphics
        /\ devices[i].queue_families[k].present

\* C18: when device selection returns, the chosen device is an enumerated
\* one with a queue family for graphics and presentation, the returned
\* family is such a family, and no enumerated device with such a family has
\* a more preferred type; selection fails only when no device has one.
C18_DeviceSelection ==
    /\ pc = "startup" =>
          /\ selected.physical \in DOMAIN devices
          /\ C18_Qualifies(selected.physical)
          /\ LET fams == devices[selected.physical].queue_families
                 q == selected.queue_family
             IN q \in DOMAIN fams /\ fams[q].graphics /\ fams[q].present
          /\ \A j \in DOMAIN devices :
                C18_Qualifies(j) =>
                    C18_Place(devices[selected.physical].device_type)
                        <= C18_Place(devices[j].device_type)
    /\ pc = "panic" => \A j \in DOMAIN devices : ~C18_Qualifies(j)

\* C18 witness: an integrated device is chosen although a discrete one
\* that cannot present to the surface was enumerated before it.
C18_Witness ==
    /\ pc = "startup"
    /\ Len(devices) = 2
    /\ devices[1].device_type = "DiscreteGpu"
    /\ ~C18_Qualifies(1)
    /\ devices[2].device_type = "IntegratedGpu"
    /\ selected.physical = 2

\* C19: a step of new_sprite / new_rectangle with z-index z puts exactly
\* one entity that was not registered into the registry, with flags
\* {USED, VISIBLE} and z-index z; every entity registered before is still
\* registered, in the same relative order, with its flags and z-index
\* unchanged.
C19_CreateAddsOne ==
    [][\A t \in Textures, z \in ZValues : new_sprite(t, z) =>
          LET e == next_id
              old == Range(draw_objects)
          IN /\ ~Registered(e)
             /\ Range(draw_objects') = old \cup {e}
             /\ Len(draw_objects') = Len(draw_objects) + 1
             /\ draw_flags'[e] = {USED, VISIBLE}
             /\ z_index'[e] = z
             /\ SelectIds(draw_objects', old) = draw_objects
             /\ \A o \in old : /\ draw_flags'[o] = draw_flags[o]
                                /\ z_index'[o] = z_index[o]]_vars

\* C19 witness: an entity was created in front of one that had been hidden
\* before; the new one has both flags, the old one kept its own.
C19_Witness ==
    /\ pc = "loop"
    /\ draw_objects = <<2, 1>>
    /\ draw_flags[1] = {USED}
    /\ draw_flags[2] = {USED, VISIBLE}
    /\ z_index[2] < z_index[1]
    /\ first_frame

\* C20: the draw calls of a recorded draw pass, and so of every submitted
\* frame, are the registry entities that have USED and VISIBLE set, each
\* once, in registry order; the registry holds no entity twice.
C20_DrawsVisibleInOrder ==
    /\ frame.recorded =>
          builder = SelectIds(draw_objects,
                       {e \in Ids : {USED, VISIBLE} \subseteq draw_flags[e]})
    /\ frame.submitted => frame.recorded
    /\ \A i, j \in DOMAIN draw_objects :
          draw_objects[i] = draw_objects[j] => i = j
    /\ \A i, j \in DOMAIN builder : builder[i] = builder[j] => i = j

\* C20 witness: a submitted frame drew two entities, the later-created one
\* first because of its lower z-index.
C20_Witness ==
    /\ pc = "returned"
    /\ frame.submitted
    /\ Len(builder) >= 2
    /\ builder[1] > builder[2]
    /\ z_index[builder[1]] < z_index[builder[2]]

\* vulkan_loop has flushed and has not returned or failed
C21_Flushed == pc \in {"validate", "acquire", "submit", "returned"}

\* C21: once update() has flushed, and until it returns, the SpriteData of
\* every registry entity holds the entity's color, its position and scale
\* padded with zeros, and the padded size of the texture it was created
\* with; the entities written are the registry after the reclaim pass, so
\* none that the pass removed for its unset USED flag is written.
C21_FlushCopiesFields ==
    C21_Flushed =>
        /\ \A e \in Range(draw_objects) :
              /\ cpu_buffer[e].color = sprite[e].color
              /\ cpu_buffer[e].global_position =
                    <<sprite[e].global_position[1],
                      sprite[e].global_position[2], 0, 0>>
              /\ cpu_buffer[e].scale =
                    <<sprite[e].scale[1], sprite[e].scale[2], 0, 0>>
              /\ cpu_buffer[e].image_dimensions = <<32, 16, 0, 0>>
              /\ sprite[e].image_dimensions = <<32, 16>>
        /\ Range(frame.flushed) = Range(draw_objects)
        /\ Range(frame.flushed) \cap frame.reclaimed = {}
        /\ \A e \in frame.reclaimed : ~Registered(e)

\* C21 witness: the flush has copied fields the program had changed, in an
\* update() whose reclaim pass removed another entity.
C21_Witness ==
    /\ pc = "validate"
    /\ frame.reclaimed # {}
    /\ \E e \in Range(draw_objects) :
          /\ sprite[e].scale = <<2, 2>>
          /\ cpu_buffer[e].scale = <<2, 2, 0, 0>>
          /\ cpu_buffer[e].color = <<1, 0, 0, 1>>

\* the steps of a whole update() in the order the claim gives them
C22_Order ==
    <<"reclaim", "flush_global", "flush_entities", "resolve_resize",
      "validate", "acquire", "record", "submit">>

\* the place of a step among the steps taken so far, 0 if it was not taken
C22_At(step) ==
    IF \E i \in DOMAIN frame.steps : frame.steps[i] = step
    THEN CHOOSE i \in DOMAIN frame.steps : frame.steps[i] = step
    ELSE 0

\* C22: the steps an update() has taken are always the first steps of
\* reclaim, global flush, entity flush, resize resolution, validation,
\* acquisition, recording, submission; so an update() that has acquired an
\* image, recorded or submitted began with the reclaim pass and flushed
\* before it recorded, and what it flushed is the registry the reclaim pass
\* left.  Outside update() no step has been taken.
C22_StepsInOrder ==
    /\ frame.steps = SubSeq(C22_Order, 1, Len(frame.steps))
    /\ pc \in {"loop", "polled", "stopped"} => frame.steps = <<>>
    /\ pc = "validate" => Len(frame.steps) = 4
    /\ pc = "acquire" => Len(frame.steps) = 5
    /\ pc = "submit" => Len(frame.steps) = 7
    /\ frame.acquired \/ frame.recorded \/ frame.submitted =>
          /\ C22_At("reclaim") = 1
          /\ C22_At("validate") # 0
          /\ C22_At("validate") < C22_At("acquire")
    /\ frame.recorded =>
          /\ C22_At("flush_global") # 0
          /\ C22_At("flush_global") < C22_At("flush_entities")
          /\ C22_At("flush_entities") < C22_At("record")
          /\ C22_At("acquire") < C22_At("record")
    /\ frame.submitted => frame.steps = C22_Order
    /\ frame.steps # <<>> /\ pc # "panic" =>
          Range(frame.flushed) = Range(draw_objects)

\* C22 witness: an update() called with the resize flag has reclaimed an
\* entity, rebuilt the swapchain and presented a frame, having taken all
\* eight steps.
C22_Witness ==
    /\ pc = "returned"
    /\ resized
    /\ frame.reclaimed # {}
    /\ frame.rebuilds = 1
    /\ frame.outcome = "presented"
    /\ frame.steps = C22_Order

\* C23: an update() whose image acquisition reports suboptimal goes on: it
\* records its draw pass and runs the submit chain, and a frame that the
\* chain accepts is presented; must_recreate is true from the acquisition
\* to the return, it is kept until the next validation, and that
\* validation calls build().
C23_SuboptimalStillDrawn ==
    /\ [](suboptimal /\ pc # "panic" =>
            /\ pc \in {"submit", "returned"}
            /\ frame.acquired /\ frame.recorded
            /\ swapchain.must_recreate
            /\ pc = "returned" =>
                  /\ frame.steps = C22_Order
                  /\ frame.outcome \in
                        {"presented", "flush_out_of_date", "flush_error"}
                  /\ frame.outcome = "presented" <=> frame.submitted)
    /\ [][pc = "returned" /\ suboptimal /\ pc' = "loop" =>
             swapchain'.must_recreate]_vars
    /\ [][RequestKept]_vars
    /\ [][pc = "validate" /\ swapchain.must_recreate /\ pc' = "acquire" =>
             /\ frame'.rebuilds = 1
             /\ ~swapchain'.must_recreate]_vars

\* C23 witness: an update() entered with nothing pending has presented its
\* frame on a suboptimal swapchain and returns with must_recreate set.
C23_Witness ==
    /\ pc = "returned"
    /\ suboptimal
    /\ ~resized
    /\ frame.rebuilds = 0
    /\ frame.submitted
    /\ frame.outcome = "presented"
    /\ swapchain.must_recreate

\* C24: a validation step that finds must_recreate set calls build(), and a
\* request is kept from the return of update() to the next validation; if
\* the window dimensions are supported from some point on, then whenever
\* must_recreate is set it is cleared again, unless the loop has ended on a
\* quit event or a fatal error.
C24_RebuildEventually ==
    /\ [][RebuildAttempted /\ RequestKept]_vars
    /\ [][pc = "validate" /\ swapchain.must_recreate /\ pc' = "returned" =>
             ~SupportedDimensions(win_size)]_vars
    /\ <>[]SupportedDimensions(win_size) =>
          (swapchain.must_recreate ~>
              (~swapchain.must_recreate \/ pc \in {"stopped", "panic"}))

\* C24 witness: an update() entered without the resize flag, on a request
\* an earlier update() left pending, has rebuilt the swapchain and cleared
\* must_recreate.
C24_Witness ==
    /\ pc = "acquire"
    /\ ~resized
    /\ ~first_frame
    /\ frame.rebuilds = 1
    /\ ~swapchain.must_recreate
    /\ swapchain.chain.dimensions # InitialWindowSize

\* C25: a step that takes an entity out of the registry is the entry of
\* update() with its reclaim pass, and the entity had USED unset when the
\* step began; so no handle drop, set_visible, creation with its re-sort,
\* skipped frame or rebuild removes one.
C25_LeavesOnlyInReclaim ==
    [][\A e \in Range(draw_objects) \ Range(draw_objects') :
          /\ pc = "polled" /\ pc' = "validate"
          /\ ~(USED \in draw_flags[e])
          /\ frame'.steps[1] = "reclaim"
          /\ e \in frame'.reclaimed]_vars

\* C25 witness: a reclaim pass has removed a dropped entity and kept a
\* hidden one, after a frame that was skipped while both were registered.
C25_Witness ==
    /\ pc = "validate"
    /\ ~first_frame
    /\ swapchain.must_recreate
    /\ ~resized
    /\ frame.reclaimed # {}
    /\ \E e \in Range(draw_objects) : draw_flags[e] = {USED}

\* the entity exists after the step: its handle or the registry holds it
C26_Exists(e) == handle'[e] \/ e \in Range(draw_objects')

\* C26: no step changes the z-index of an entity that exists before and
\* after it.  A set_visible step sets or clears VISIBLE of its entity and
\* nothing else in the flags; a handle drop clears USED of its entity and
\* nothing else; an assignment to color, global_position or scale leaves
\* all flags alone; none of the three touches a z-index or the registry.
C26_ZIndexFixed ==
    [][\A e \in Ids :
          /\ Created(e) /\ C26_Exists(e) => z_index'[e] = z_index[e]
          /\ \A v \in BOOLEAN : SetVisible(e, v) =>
                /\ draw_flags' =
                     [draw_flags EXCEPT ![e] =
                        IF v THEN @ \cup {VISIBLE} ELSE @ \ {VISIBLE}]
                /\ (USED \in draw_flags'[e]) <=> (USED \in draw_flags[e])
                /\ z_index' = z_index /\ draw_objects' = draw_objects
          /\ DropGraphicObject(e) =>
                /\ draw_flags' = [draw_flags EXCEPT ![e] = @ \ {USED}]
                /\ (VISIBLE \in draw_flags'[e])
                      <=> (VISIBLE \in draw_flags[e])
                /\ z_index' = z_index /\ draw_objects' = draw_objects
          /\ \A edit \in SpriteEdits : SetSpriteFields(e, edit) =>
                /\ draw_flags' = draw_flags
                /\ z_index' = z_index /\ draw_objects' = draw_objects
                /\ sprite'[e].image_dimensions
                      = sprite[e].image_dimensions]_vars

\* C26 witness: an entity created behind the others was hidden, written to
\* and dropped; it is still registered with the z-index it was created
\* with.
C26_Witness ==
    /\ pc = "loop"
    /\ \E e \in Range(draw_objects) :
          /\ ~handle[e]
          /\ draw_flags[e] = {}
          /\ sprite[e].scale = <<2, 2>>
          /\ z_index[e] = MaxZ

\* C27: a resize event taken from the event pump sets the window-resized
\* flag; an update() entered with the flag runs with must_recreate true and
\* records the window size; the flag is cleared only by the return of an
\* update() that took it, which has then rebuilt the swapchain or still
\* has must_recreate set; and must_recreate goes from true to false only
\* in a step that rebuilds.
C27_ResizeNotLost ==
    /\ [][ev_resized /\ ~ev_resized' => window_resized']_vars
    /\ [][pc = "polled" /\ window_resized /\ pc' = "validate" =>
             /\ resized'
             /\ swapchain'.must_recreate
             /\ window_size' = win_size]_vars
    /\ [](pc = "validate" /\ resized => swapchain.must_recreate)
    /\ [][window_resized /\ ~window_resized' =>
             /\ pc = "returned" /\ resized
             /\ frame.rebuilds = 1 \/ swapchain.must_recreate
             /\ frame.outcome = "unsupported" =>
                   swapchain'.must_recreate]_vars
    /\ [][swapchain.must_recreate /\ ~swapchain'.must_recreate =>
             /\ pc = "validate" /\ pc' = "acquire"
             /\ frame'.rebuilds = frame.rebuilds + 1
             /\ SupportedDimensions(swapchain'.chain.dimensions)]_vars

\* C27 witness: the update() after a resize to unsupported dimensions was
\* skipped: the window-resized flag has been cleared, no new event has
\* come, and must_recreate is still set at validation.
C27_Witness ==
    /\ pc = "validate"
    /\ ~resized /\ ~window_resized /\ ~ev_resized
    /\ window_size = <<0, 0>>
    /\ ~SupportedDimensions(win_size)
    /\ swapchain.must_recreate

\* an update() is running or has just returned
C28_InUpdate == pc \in {"validate", "acquire", "submit", "returned"}

\* C28: an update() is entered only from a poll of the events that saw no
\* quit event, and after its return the events are polled again before the
\* next one; the break flag is never cleared, and once it is set the loop
\* has ended: no update() is running and no step follows.
C28_PollThenUpdateOnce ==
    /\ [][~C28_InUpdate /\ C28_InUpdate' =>
             pc = "polled" /\ ~must_break /\ pc' = "validate"]_vars
    /\ [][pc' = "polled" => (pc \in {"loop", "polled"}) /\ ~must_break']_vars
    /\ [][pc = "polled" => pc' = "validate"]_vars
    /\ [][pc = "returned" => pc' = "loop"]_vars
    /\ [][pc = "loop" => pc' \in {"loop", "polled", "stopped", "panic"}]_vars
    /\ [][must_break => must_break']_vars
    /\ [](must_break => pc = "stopped" /\ frame = NoFrame)
    /\ [][pc = "stopped" => UNCHANGED vars]_vars

\* C28 witness: after at least one update() a quit event was polled
\* together with a resize event; the loop has ended with the resize flag
\* still set, so no update() took it.
C28_Witness ==
    /\ pc = "stopped"
    /\ must_break
    /\ window_resized
    /\ ~first_frame

\* ------------------------------------------------------------------ C29
\* C29: whatever the program did with its handles between two update()
\* calls (reading or writing through a guard, toggling visibility, dropping
\* handles, creating entities), once every borrow guard is released no step
\* fails on a borrow conflict: the following update() meets neither
\* "already borrowed" nor "already mutably borrowed" in its reclaim, flush
\* and draw passes, and it leaves every entity's borrow state as it found it.
C29_NoGuardAlive == \A e \in Ids : borrow_flag[e] = 0
C29_BorrowFailures == {"already_borrowed", "already_mutably_borrowed"}
C29_InUpdate == pc \in {"polled", "validate", "acquire", "submit"}
C29_ReleasedGuardsNoConflict ==
    /\ [][C29_NoGuardAlive =>
            frame'.outcome \notin C29_BorrowFailures]_vars
    /\ [][C29_InUpdate => borrow_flag' = borrow_flag]_vars
    /\ [](frame.outcome \in C29_BorrowFailures => ~C29_NoGuardAlive)

\* an update() has recorded the draw calls of two entities after the program
\* dropped a guard, with no guard alive
C29_Witness ==
    /\ pc = "submit"
    /\ frame.guard_dropped
    /\ C29_NoGuardAlive
    /\ Len(builder) >= 2
    /\ frame.outcome \notin C29_BorrowFailures

\* ------------------------------------------------------------------ C30
\* C30: must_recreate goes from true to false only in the step of
\* check_and_recreate that builds a new swapchain. Acquisition is reached
\* only with must_recreate false, so set_recreate(suboptimal) after a
\* successful acquire never turns a true flag into a false one: it leaves
\* the flag equal to the suboptimal flag of the acquire result.
C30_ClearedOnlyByRebuild ==
    /\ [](pc = "acquire" => ~swapchain.must_recreate)
    /\ [][(pc = "acquire") /\ pc' = "submit" =>
             /\ ~swapchain.must_recreate
             /\ swapchain'.must_recreate = suboptimal']_vars
    /\ [][swapchain.must_recreate /\ ~swapchain'.must_recreate =>
             /\ pc = "validate" /\ pc' = "acquire"
             /\ frame'.rebuilds = frame.rebuilds + 1
             /\ swapchain'.chain.dimensions = win_size]_vars

\* an update() entered with a resize has rebuilt the swapchain and acquired
\* an image that is not suboptimal: the flag the rebuild cleared is assigned
\* false again
C30_Witness ==
    /\ pc = "submit"
    /\ resized
    /\ frame.rebuilds = 1
    /\ ~suboptimal
    /\ ~swapchain.must_recreate

\* ------------------------------------------------------------------ C31
\* C31 as stated: no image is acquired from, and no frame is recorded for
\* or submitted to, a swapchain whose must_recreate flag is set.
C31_NeverOnPendingRecreate ==
    pc \in {"acquire", "submit"} => ~swapchain.must_recreate

\* C31, amended: acquisition is reached only through a validation step and
\* only with must_recreate false, and a frame is recorded and submitted only
\* in an update() that was validated and acquired an image. At submission
\* must_recreate is the suboptimal flag of this update()'s acquire result,
\* so a frame acquired as suboptimal is recorded and submitted on a
\* swapchain that is marked for a rebuild again.
C31_Validated == \E i \in DOMAIN frame.steps : frame.steps[i] = "validate"
C31_ValidatedBeforeGpuWork ==
    /\ pc = "acquire" => C31_Validated /\ ~swapchain.must_recreate
    /\ pc = "submit" =>
          /\ C31_Validated
          /\ frame.acquired /\ frame.recorded
          /\ swapchain.must_recreate = suboptimal
    /\ frame.acquired \/ frame.recorded \/ frame.submitted =>
          C31_Validated /\ frame.outcome # "unsupported"

\* C31 witness: a frame acquired as suboptimal has been recorded and is
\* about to be submitted, with must_recreate set.
C31_Witness ==
    /\ pc = "submit"
    /\ frame.recorded
    /\ suboptimal
    /\ swapchain.must_recreate

\* ------------------------------------------------------------------ C32
\* C32: in every reachable state, whatever rebuilds succeeded, failed or
\* were skipped, the swapchain holds one framebuffer per image, built from
\* that image, so every image index acquisition can return is an index into
\* the framebuffers and no update() fails on an index out of bounds.
C32_FramebufferPerImage ==
    /\ Len(swapchain.framebuffers) = Len(swapchain.images)
    /\ \A i \in DOMAIN swapchain.images :
          swapchain.framebuffers[i] = swapchain.images[i]
    /\ \A image_num \in 0..(Len(swapchain.images) - 1) :
          image_num + 1 \in DOMAIN swapchain.framebuffers
    /\ frame.outcome # "index_out_of_bounds"

\* C32 witness: an update() entered without a resize has rebuilt a chain
\* that an earlier update() left marked, and recorded a frame on one of the
\* new framebuffers.
C32_Witness ==
    /\ pc = "submit"
    /\ frame.recorded
    /\ frame.rebuilds = 1
    /\ ~resized
    /\ Len(swapchain.images) >= 2
    /\ swapchain.framebuffers = swapchain.images
    /\ swapchain.images[1] # InitialWindowSize

\* ------------------------------------------------------------------ C33
\* C33: as long as no fatal failure has happened, previous_frame_end holds
\* a completion signal: at every entry to update(), whatever the updates
\* before it ended with (skipped on unsupported dimensions or on an
\* out-of-date acquire, presented, failed submission), and at every return.
\* So previous_frame_end.take().unwrap() at submission finds a signal.
C33_SignalPresentAtEntry ==
    /\ pc # "panic" => previous_frame_end \in {"satisfied", "pending"}
    /\ pc \in {"validate", "acquire", "submit", "returned"} =>
          entry.previous_frame_end \in {"satisfied", "pending"}
    /\ previous_frame_end = "none" =>
          frame.outcome = "gpu_timeout" /\ frame.submitted
    /\ frame.outcome # "unwrap_none"

\* C33 witness: the update() that follows one whose submission was out of
\* date has rebuilt the chain and is about to take the signal.
C33_Witness ==
    /\ pc = "submit"
    /\ last_outcome = "flush_out_of_date"
    /\ frame.rebuilds = 1
    /\ entry.previous_frame_end = "satisfied"
    /\ previous_frame_end = "satisfied"

\* ------------------------------------------------------------------ C34
\* C34: the global uniform data an update() writes are the recorded window
\* size, the camera position and the camera scale as they were when the
\* update() started, each extended by two zero components. The recorded
\* window size changes only in the entry step of an update() called with
\* the resize flag, where it becomes the size of the window, and that step
\* still writes the size recorded before it: the written size differs from
\* the recorded one only in such an update(), and the new size is written
\* by the flush of the update() that follows. Nothing else writes the data.
C34_AtStart(size, position, scale) ==
    [window_size |-> <<size[1], size[2], 0, 0>>,
     camera_position |-> <<position[1], position[2], 0, 0>>,
     camera_scale |-> <<scale[1], scale[2], 0, 0>>]
C35_Skipped ==
    /\ pc = "returned"
    /\ frame.outcome \in {"unsupported", "acquire_out_of_date"}
C35_ReclaimOnSkippedFrames ==
    C35_Skipped =>
        /\ ~frame.acquired /\ ~frame.recorded /\ ~frame.submitted
        /\ builder = <<>>
        /\ frame.steps[1] = "reclaim"
        /\ \A e \in Range(draw_objects) : USED \in draw_flags[e]
        /\ \A e \in Ids : Created(e) /\ ~handle[e] => ~Registered(e)
        /\ \A e \in frame.reclaimed : ~Registered(e) /\ ~handle[e]
        /\ frame.flushed = draw_objects

\* C35 witness: an update() skipped on an out-of-date acquire has removed
\* the two entities whose handles were dropped before it.
C35_Witness ==
    /\ pc = "returned"
    /\ frame.outcome = "acquire_out_of_date"
    /\ ~frame.submitted
    /\ Cardinality(frame.reclaimed) = 2
    /\ draw_objects = <<>>

\* ------------------------------------------------------------------ C36
\* C36: the window-resized flag is false whenever update() has returned and
\* the loop is about to poll again; it goes from false to true only in
\* check_events, when the events polled hold a resize, and however many
\* resize events were polled before an update(), that update() rebuilds
\* the swapchain at most once, in its validation step.
C36_ResizeFlagLifecycle ==
    /\ [](pc = "loop" => ~window_resized)
    /\ [][(pc = "returned") /\ pc' = "loop" => ~window_resized']_vars
    /\ [][~window_resized /\ window_resized' =>
             /\ pc = "loop" /\ pc' \in {"polled", "stopped"}
             /\ ev_resized /\ ~ev_resized']_vars
    /\ [](frame.rebuilds \in {0, 1})
    /\ [][frame'.rebuilds > frame.rebuilds =>
             pc = "validate" /\ pc' = "acquire"]_vars

\* C36 witness: before the first update() the window was resized away from
\* its initial size and back, both events were polled by one check_events,
\* and the update() has returned after one rebuild.
C36_Witness ==
    /\ first_frame
    /\ pc = "returned"
    /\ resized /\ window_resized
    /\ ~ev_resized
    /\ win_size = InitialWindowSize
    /\ frame.rebuilds = 1

\* ------------------------------------------------------------------ C37
\* C37: the borrows that creating an entity and update() take of registry
\* entities are all released when the step is over: neither changes the
\* borrow state of an entity, and a new entity starts with no guard. With
\* no guard alive on a registered entity no step fails on a borrow
\* conflict. The entry of update(), with its reclaim and flush passes,
\* fails exactly when a registered entity has a RefMut alive, and a draw
\* pass is recorded only if no entity it draws has a guard alive.
C37_RegisteredGuardFree ==
    \A e \in Range(draw_objects) : borrow_flag[e] = 0
C37_Creates == next_id' = next_id + 1
C38_LoadFailed ==
    sfx_call.op = "sfx_from_file" /\ sfx_call.load = "err"
C38_PlayedNoData ==
    sfx_call.op = "sfx_play" /\ sfx_call.data = "none"
C38_SfxErrorsAbsorbed ==
    /\ C38_LoadFailed => chunk = SoundEffect("none") /\ pc = "loop"
    /\ C38_PlayedNoData =>
          sfx_call.returned = None /\ sfx_call.started = {}

\* C38 witness: a load failed, the SoundEffect without data was played while
\* a channel was free, and an earlier SoundEffect with data is still
\* playing on channel 1.
C38_Witness ==
    /\ C38_PlayedNoData
    /\ chunk = SoundEffect("none")
    /\ channels[1].playing
    /\ PlayResults(channels) # {None}

====
